---- MODULE Spec2Model ----
(***************************************************************************)
(* Formula1-AR: the playback clock (RaceControlsContext), its frame driver *)
(* (RaceTimer), the AR speed buttons (ARControls) and the per-frame car    *)
(* sampling (Cars).                                                        *)
(*                                                                         *)
(* Fixed-point units.  Every number of the program is a float; the model   *)
(* keeps the values exact by counting                                      *)
(*   - frame deltas and wall-clock gaps in units of 50 ms,                 *)
(*   - the speed multiplier in units of 0.5,                               *)
(*   - elapsed (playback) time in units of 25 ms (= 50 ms * 0.5),          *)
(* so that "delta * playbackSpeed" of the code is the integer product.     *)
(*                                                                         *)
(* React state.  useState keeps a stored value that a setter changes at    *)
(* once, and each render captures a copy of it in the closures the context *)
(* hands out.  The stored values are isPlayingState, playbackSpeedState    *)
(* and currentTimeState; the captured copies, which is what the code reads *)
(* as isPlaying, playbackSpeed and currentTime, change only in Render.     *)
(* currentTimeRef is a useRef: read and written in place.                  *)
(***************************************************************************)
EXTENDS Integers, Sequences, FiniteSets, TLC

VARIABLES
    isPlayingState,      \* useState(false): stored value
    playbackSpeedState,  \* useState(1.0): stored value
    currentTimeState,    \* useState(0): stored value
    isPlaying,           \* value captured by the last render
    playbackSpeed,       \* value captured by the last render
    currentTime,         \* value captured by the last render (context.currentTime)
    currentTimeRef,      \* useRef(0): what getCurrentTime() returns
    wallGap,             \* wall-clock time since the previous frame
    lastOp,              \* history: the operation of the last step and its argument
    speedArgs,           \* history: worst argument a consumer gave setPlaybackSpeed
    telemetry,           \* Cars props: data.telemetry, read-only once loaded
    carRefs,             \* Cars: the cars (by index) that have a mesh handle
    carPos,              \* position of each car's mesh
    carColor,            \* material colour of each car's mesh
    lastTimeRef,         \* Cars: useRef(-1), the time read by the previous frame
    frameFault,          \* the last Cars frame threw before it finished
    sampleTime,          \* history: the time the last frame's loop body read for each car
    trackPath,           \* Track props: trackPath (data.track), or no value at all
    centerPoints,        \* Track: the centerline the boundary memo returned
    innerPoints,         \* Track: the inner boundary the memo returned
    outerPoints,         \* Track: the outer boundary the memo returned
    asphaltGeometry,     \* Track: the surface mesh, if one was built
    trackOutput,         \* Track: what the last render returned
    rebuilt,             \* history: the memos whose function the last render ran
    connected,           \* ARControls: the controllers useController returns
    held,                \* the controllers whose trigger is down
    now,                 \* Date.now()
    triggerPressedRef,   \* ARControls: useRef(false)
    lastTriggerTimeRef,  \* ARControls: useRef(0)
    hoveredButtonState,  \* ARControls: useState(null), stored value
    hoveredButton,       \* ARControls: value captured by the last render
    clicks,              \* history: button actions invoked in the current hold of each trigger
    lastActionTime,      \* history: Date.now() of the last button action
    raceFile,            \* useRaceData: the raceFile argument (App's selectedRace)
    data,                \* useRaceData: useState(null), the race whose JSON is stored
    loading,             \* useRaceData: useState(true)
    error,               \* useRaceData: useState(null), whether a message is stored
    inFlight,            \* the fetches that have not completed, counted by file
    fetches,             \* history: the number of fetches started
    sessionActive,       \* UI: useState(false)
    arStatus,            \* UI: useState('exited')
    selectedRaceRef,     \* UI: useRef(selectedRace), synced by an effect
    ratkSetup,           \* UI: the button was converted by ARButton.convertToARButton
    xrSession,           \* the XR session: none, running or ending
    pendingStart,        \* the notifications of the session's start not yet delivered
    pendingEnd,          \* the notifications of the session's end not yet delivered
    raceJSON,            \* the telemetry of the JSON of each race file
    hasSetStartTime,     \* ARScene: useRef(false)
    seeks                \* history: the number of seeks the start-time effect has made

clockVars == <<isPlayingState, playbackSpeedState, currentTimeState,
               isPlaying, playbackSpeed, currentTime, currentTimeRef>>

carVars == <<telemetry, carRefs, carPos, carColor, lastTimeRef, frameFault, sampleTime>>

trackVars == <<trackPath, centerPoints, innerPoints, outerPoints, asphaltGeometry,
               trackOutput, rebuilt>>

controlVars == <<connected, held, now, triggerPressedRef, lastTriggerTimeRef,
                 hoveredButtonState, hoveredButton, clicks, lastActionTime>>

dataVars == <<raceFile, data, loading, error, inFlight, fetches>>

sessionVars == <<sessionActive, arStatus, ratkSetup, xrSession, pendingStart, pendingEnd>>

uiVars == <<selectedRaceRef, sessionVars>>

startVars == <<raceJSON, hasSetStartTime, seeks>>

sceneVars == <<controlVars, dataVars, uiVars, startVars>>

vars == <<isPlayingState, playbackSpeedState, currentTimeState,
          isPlaying, playbackSpeed, currentTime, currentTimeRef,
          wallGap, lastOp, speedArgs,
          telemetry, carRefs, carPos, carColor, lastTimeRef, frameFault, sampleTime,
          trackPath, centerPoints, innerPoints, outerPoints, asphaltGeometry,
          trackOutput, rebuilt, sceneVars>>

-----------------------------------------------------------------------------
\* Program constants (in the units above)

InitSpeed == 2       \* useState(1.0)
SpeedStep == 1       \* playbackSpeed + 0.5, playbackSpeed - 0.5
MaxSpeed  == 10      \* Math.min(5, ...)
MinSpeed  == 1       \* Math.max(0.5, ...)
DeltaCap  == 2       \* Math.min(delta, 0.1)

\* Bounds of the model

MaxTime == 11        \* elapsed time stays in -MaxNeg .. MaxTime
MaxNeg  == 2
MaxGap  == 3         \* longest wall-clock gap between two frames (150 ms)
MaxSeek == 3         \* largest time handed to setTime

Deltas       == {0, 1, MaxGap}        \* arguments of a direct advanceTime call
SeekTimes    == {0, MaxSeek}          \* arguments of setTime (time >= 0)
\* arguments of a direct setPlaybackSpeed call: -0.5, 0, 2.0 and 5.5
DirectSpeeds == {0 - 1, 0, 2 * InitSpeed, MaxSpeed + 1}

Min(a, b) == IF a <= b THEN a ELSE b
Max(a, b) == IF a >= b THEN a ELSE b

InTimeBound(t) == t >= 0 - MaxNeg /\ t <= MaxTime

Op(n, a) == [name |-> n, arg |-> a]

-----------------------------------------------------------------------------
\* RaceControlsProvider

\* Mutants of advanceTime: without the isPlaying guard; without the speed.
advanceTimeNoGuard(ref, playing, speed, delta) == ref + delta * speed

advanceTimeNoSpeed(ref, playing, speed, delta) ==
    IF ~playing THEN ref ELSE ref + delta

\* advanceTime(delta): the value of currentTimeRef.current after the call,
\* read with the isPlaying and playbackSpeed its closure captured.
advanceTime(ref, playing, speed, delta) ==
    IF ~playing THEN ref ELSE ref + delta * speed

\* Mutant of AdvanceTime: the state behind the exposed currentTime follows
\* the ref.
AdvanceTimeSyncsState(delta) ==
    /\ InTimeBound(advanceTime(currentTimeRef, isPlaying, playbackSpeed, delta))
    /\ currentTimeRef' = advanceTime(currentTimeRef, isPlaying, playbackSpeed, delta)
    /\ currentTimeState' = currentTimeRef'
    /\ lastOp' = Op("advanceTime", delta)
    /\ UNCHANGED <<isPlayingState, playbackSpeedState,
                   isPlaying, playbackSpeed, currentTime, wallGap, speedArgs, carVars, trackVars, sceneVars>>

\* A consumer of the context calls advanceTime(delta).
AdvanceTime(delta) ==
    /\ InTimeBound(advanceTime(currentTimeRef, isPlaying, playbackSpeed, delta))
    /\ currentTimeRef' = advanceTime(currentTimeRef, isPlaying, playbackSpeed, delta)
    /\ lastOp' = Op("advanceTime", delta)
    /\ UNCHANGED <<isPlayingState, playbackSpeedState, currentTimeState,
                   isPlaying, playbackSpeed, currentTime, wallGap, speedArgs, carVars, trackVars, sceneVars>>

\* Mutant of SetTime: the ref getCurrentTime() reads is not written.
SetTimeStateOnly(time) ==
    /\ currentTimeState' = time
    /\ lastOp' = Op("setTime", time)
    /\ UNCHANGED <<isPlayingState, playbackSpeedState, currentTimeRef,
                   isPlaying, playbackSpeed, currentTime, wallGap, speedArgs, carVars, trackVars, sceneVars>>

\* setTime(time)
SetTime(time) ==
    /\ currentTimeRef' = time
    /\ currentTimeState' = time
    /\ lastOp' = Op("setTime", time)
    /\ UNCHANGED <<isPlayingState, playbackSpeedState,
                   isPlaying, playbackSpeed, currentTime, wallGap, speedArgs, carVars, trackVars, sceneVars>>

\* Mutant of TogglePlay: setIsPlaying(!isPlaying), with the isPlaying the
\* closure captured.
TogglePlayCaptured ==
    /\ isPlayingState' = ~isPlaying
    /\ lastOp' = Op("togglePlay", IF isPlayingState THEN 1 ELSE 0)
    /\ UNCHANGED <<playbackSpeedState, currentTimeState,
                   isPlaying, playbackSpeed, currentTime, currentTimeRef,
                   wallGap, speedArgs, carVars, trackVars, sceneVars>>

\* togglePlay(): setIsPlaying((prev) => !prev).  The step is recorded with the
\* prev the updater was given: 1 for true, 0 for false.
TogglePlay ==
    /\ isPlayingState' = ~isPlayingState
    /\ lastOp' = Op("togglePlay", IF isPlayingState THEN 1 ELSE 0)
    /\ UNCHANGED <<playbackSpeedState, currentTimeState,
                   isPlaying, playbackSpeed, currentTime, currentTimeRef,
                   wallGap, speedArgs, carVars, trackVars, sceneVars>>

\* Mutant of Reset: playback is not paused.
ResetKeepsPlaying ==
    /\ currentTimeRef' = 0
    /\ currentTimeState' = 0
    /\ lastOp' = Op("reset", 0)
    /\ UNCHANGED <<isPlayingState, playbackSpeedState,
                   isPlaying, playbackSpeed, currentTime, wallGap, speedArgs, carVars, trackVars, sceneVars>>

\* reset()
Reset ==
    /\ isPlayingState' = FALSE
    /\ currentTimeRef' = 0
    /\ currentTimeState' = 0
    /\ lastOp' = Op("reset", 0)
    /\ UNCHANGED <<playbackSpeedState,
                   isPlaying, playbackSpeed, currentTime, wallGap, speedArgs, carVars, trackVars, sceneVars>>

\* The class of a setPlaybackSpeed argument, and the worse of two classes.
SpeedClass(m) ==
    IF m >= MinSpeed /\ m <= MaxSpeed THEN "inRange"
    ELSE IF m > 0 THEN "positive" ELSE "any"

Worse(a, b) ==
    IF a = "any" \/ b = "any" THEN "any"
    ELSE IF a = "positive" \/ b = "positive" THEN "positive" ELSE "inRange"

\* The value setPlaybackSpeed(speed) stores: the setter of useState(1.0).
setPlaybackSpeed(speed) == speed

\* A consumer of the context calls setPlaybackSpeed(m).
SetPlaybackSpeed(m) ==
    /\ playbackSpeedState' = setPlaybackSpeed(m)
    /\ speedArgs' = Worse(speedArgs, SpeedClass(m))
    /\ lastOp' = Op("setPlaybackSpeed", m)
    /\ UNCHANGED <<isPlayingState, currentTimeState,
                   isPlaying, playbackSpeed, currentTime, currentTimeRef, wallGap, carVars, trackVars, sceneVars>>

\* A render of the provider: the closures and the context value capture the
\* stored state.
Render ==
    /\ <<isPlaying, playbackSpeed, currentTime>>
         # <<isPlayingState, playbackSpeedState, currentTimeState>>
    /\ isPlaying' = isPlayingState
    /\ playbackSpeed' = playbackSpeedState
    /\ currentTime' = currentTimeState
    /\ lastOp' = Op("render", 0)
    /\ UNCHANGED <<isPlayingState, playbackSpeedState, currentTimeState,
                   currentTimeRef, wallGap, speedArgs, carVars, trackVars, sceneVars>>

-----------------------------------------------------------------------------
\* ARControls: the actions of the speed buttons

\* Mutants of the button values: the clamp is missing.
speedUpValueNoClamp(speed) == speed + SpeedStep

speedDownValueNoClamp(speed) == speed - SpeedStep

speedUpValue(speed) == Min(MaxSpeed, speed + SpeedStep)

speedDownValue(speed) == Max(MinSpeed, speed - SpeedStep)

SpeedUp ==
    /\ playbackSpeedState' = setPlaybackSpeed(speedUpValue(playbackSpeed))
    /\ lastOp' = Op("speedUp", 0)
    /\ UNCHANGED <<isPlayingState, currentTimeState, isPlaying, playbackSpeed,
                   currentTime, currentTimeRef, wallGap, speedArgs, carVars, trackVars, sceneVars>>

SpeedDown ==
    /\ playbackSpeedState' = setPlaybackSpeed(speedDownValue(playbackSpeed))
    /\ lastOp' = Op("speedDown", 0)
    /\ UNCHANGED <<isPlayingState, currentTimeState, isPlaying, playbackSpeed,
                   currentTime, currentTimeRef, wallGap, speedArgs, carVars, trackVars, sceneVars>>

-----------------------------------------------------------------------------
\* RaceTimer: the frame driver

\* Mutant of safeDelta: the delta is not capped.
safeDeltaNoCap(delta) == delta

safeDelta(delta) == Min(delta, DeltaCap)

\* The useFrame callback of RaceTimer, run with the wall-clock time since the
\* previous frame as its delta.
raceTimerFrame(ref, playing, speed, delta) ==
    IF playing THEN advanceTime(ref, playing, speed, safeDelta(delta)) ELSE ref

\* The state change of that callback, without the bookkeeping of the step.
RaceTimerUseFrame ==
    /\ InTimeBound(raceTimerFrame(currentTimeRef, isPlaying, playbackSpeed, wallGap))
    /\ currentTimeRef' = raceTimerFrame(currentTimeRef, isPlaying, playbackSpeed, wallGap)
    /\ wallGap' = 0
    /\ UNCHANGED <<isPlayingState, playbackSpeedState, currentTimeState,
                   isPlaying, playbackSpeed, currentTime, speedArgs>>

\* A frame seen from the clock: the Cars callback of the same frame writes no
\* variable of the clock, so the clock's specification leaves it out.
RaceTimerFrame ==
    /\ RaceTimerUseFrame
    /\ lastOp' = Op("raceTimerFrame", wallGap)
    /\ UNCHANGED <<carVars, trackVars, sceneVars>>

\* Mutant of WallClock: an internal timer advances a playing clock with the
\* wall clock, as the requestAnimationFrame loop of hooks/useRaceControls.ts did.
WallClockTimer ==
    /\ wallGap < MaxGap
    /\ wallGap' = wallGap + 1
    /\ InTimeBound(advanceTime(currentTimeRef, isPlaying, playbackSpeed, 1))
    /\ currentTimeRef' = advanceTime(currentTimeRef, isPlaying, playbackSpeed, 1)
    /\ lastOp' = Op("wallClock", 0)
    /\ UNCHANGED <<isPlayingState, playbackSpeedState, currentTimeState,
                   isPlaying, playbackSpeed, currentTime, speedArgs, carVars, trackVars, sceneVars>>

\* Wall-clock time passes (50 ms) and no frame is rendered.
WallClock ==
    /\ wallGap < MaxGap
    /\ wallGap' = wallGap + 1
    /\ lastOp' = Op("wallClock", 0)
    /\ UNCHANGED <<isPlayingState, playbackSpeedState, currentTimeState,
                   isPlaying, playbackSpeed, currentTime, currentTimeRef, speedArgs, carVars, trackVars, sceneVars>>

-----------------------------------------------------------------------------
\* Cars: the per-frame sampling of every car
\*
\* Telemetry positions are integers; a position written to a mesh is a triple
\* of exact rationals [n, d] (d > 0, lowest terms; d = 0 for NaN).  The vertical
\* coordinate is counted in units of 0.01.  The speed channel of CarTelemetry
\* is never read by Cars and is left out.  A brake value (boolean | number) is
\* only ever tested for its truth; the model keeps that: TRUE for true and for
\* a number other than 0.

CarY == 1            \* carRef.position.set(x, 0.01, z)
ThrottleThreshold == 50   \* throttle > 50

White == "#FFFFFF"
Red   == "#CA1551"
Mint  == "#03CEA4"

Abs(a) == IF a < 0 THEN 0 - a ELSE a

RECURSIVE Gcd(_, _)
Gcd(a, b) == IF b = 0 THEN a ELSE Gcd(b, a % b)

\* The float n / d (d # 0) as a rational in lowest terms with d > 0.
Rat(n, d) ==
    LET g == Gcd(Abs(n), Abs(d))
        s == IF d < 0 THEN 0 - 1 ELSE 1
    IN  [n |-> (s * n) \div g, d |-> (s * d) \div g]

Whole(n) == [n |-> n, d |-> 1]

\* The values of a float that are no number: d = 0.
NaN         == [n |-> 0, d |-> 0]
Infinity    == [n |-> 1, d |-> 0]
NegInfinity == [n |-> 0 - 1, d |-> 0]

\* a / b of two floats with integer values: b = 0 gives Infinity, -Infinity or NaN.
Divide(a, b) ==
    IF b # 0 THEN Rat(a, b)
    ELSE IF a > 0 THEN Infinity ELSE IF a < 0 THEN NegInfinity ELSE NaN

\* Math.max(0, Math.min(1, q))
Clamp01(q) ==
    IF q = NaN THEN NaN
    ELSE IF q = Infinity THEN Whole(1)
    ELSE IF q = NegInfinity THEN Whole(0)
    ELSE IF q.n < 0 THEN Whole(0)
    ELSE IF q.n > q.d THEN Whole(1)
    ELSE q

\* Mutant of lerp: the next sample's value, whatever the fraction.
lerpToNext(x, y, t) == Whole(y)

\* THREE.MathUtils.lerp(x, y, t) = (1 - t) * x + t * y, for integers x, y
lerp(x, y, t) ==
    IF t = NaN THEN NaN ELSE Rat((t.d - t.n) * x + t.n * y, t.d)

\* Mutant of Place: the sample's own y (in units of 0.01) is written.
PlaceSampleY(p) == [x |-> Whole(p[1]), y |-> 100 * p[2], z |-> Whole(p[3])]

\* carRef.position.set(p[0], 0.01, p[2]) for a telemetry position p
Place(p) == [x |-> Whole(p[1]), y |-> CarY, z |-> Whole(p[3])]

\* carData.positions_normalized[0] || [0, 0, 0]
initialPos(carData) ==
    IF Len(carData.positions_normalized) >= 1
    THEN carData.positions_normalized[1] ELSE <<0, 0, 0>>

\* Mutant of findIndex: the last index with times[i] >= t.
findIndexLast(times, t) ==
    IF \E i \in 1..Len(times) : times[i] >= t
    THEN CHOOSE i \in 1..Len(times) :
            /\ times[i] >= t
            /\ \A j \in (i + 1)..Len(times) : ~(times[j] >= t)
    ELSE 0

\* carData.times.findIndex((t) => t >= currentTime), counted from 1; 0 is the
\* -1 of the code.
findIndex(times, t) ==
    IF \E i \in 1..Len(times) : times[i] >= t
    THEN CHOOSE i \in 1..Len(times) :
            /\ times[i] >= t
            /\ \A j \in 1..(i - 1) : ~(times[j] >= t)
    ELSE 0

\* Mutant of colorAt: the throttle is tested before the brake.
colorAtThrottleFirst(carData, i) ==
    LET throttle == IF i \in DOMAIN carData.throttle THEN carData.throttle[i] ELSE 0
        brake    == IF i \in DOMAIN carData.brake THEN carData.brake[i] ELSE FALSE
    IN  IF throttle > ThrottleThreshold THEN Mint
        ELSE IF brake THEN Red
        ELSE White

\* Mutant of colorAt: the throttle and brake of the sample before index i.
colorAtPrev(carData, i) ==
    LET throttle == IF (i - 1) \in DOMAIN carData.throttle
                    THEN carData.throttle[i - 1] ELSE 0
        brake    == IF (i - 1) \in DOMAIN carData.brake
                    THEN carData.brake[i - 1] ELSE FALSE
    IN  IF brake THEN Red
        ELSE IF throttle > ThrottleThreshold THEN Mint
        ELSE White

\* The colour chosen from the throttle and brake at (1-based) index i:
\* carData.throttle[i] || 0, carData.brake[i] || false.
colorAt(carData, i) ==
    LET throttle == IF i \in DOMAIN carData.throttle THEN carData.throttle[i] ELSE 0
        brake    == IF i \in DOMAIN carData.brake THEN carData.brake[i] ELSE FALSE
    IN  IF brake THEN Red
        ELSE IF throttle > ThrottleThreshold THEN Mint
        ELSE White

Keep(pos, color) == [pos |-> pos, color |-> color, threw |-> FALSE]

Throw(pos, color) == [pos |-> pos, color |-> color, threw |-> TRUE]

\* The interpolation of one car between the samples timeIndex - 1 and
\* timeIndex (1-based), and its colour.
interpolate(carData, pos, color, t, timeIndex) ==
    IF ~((timeIndex - 1) \in DOMAIN carData.times /\ timeIndex \in DOMAIN carData.times)
    THEN Keep(pos, color)
    ELSE
      LET prevTime == carData.times[timeIndex - 1]
          nextTime == carData.times[timeIndex]
          f == Clamp01(Divide(t - prevTime, nextTime - prevTime))
      IN  IF ~(/\ (timeIndex - 1) \in DOMAIN carData.positions_normalized
               /\ timeIndex \in DOMAIN carData.positions_normalized)
          THEN Keep(pos, color)
          ELSE
            LET prevPos == carData.positions_normalized[timeIndex - 1]
                nextPos == carData.positions_normalized[timeIndex]
            IN  Keep([x |-> lerp(prevPos[1], nextPos[1], f),
                      y |-> CarY,
                      z |-> lerp(prevPos[3], nextPos[3], f)],
                     colorAt(carData, timeIndex))

\* The body of telemetry.forEach for one car that has a mesh handle: the
\* car's position and colour after it, and whether it threw (a read of an
\* index of an undefined position).
carUpdate(carData, pos, color, playing, t) ==
    IF ~playing /\ t = 0 THEN Keep(Place(initialPos(carData)), color)
    ELSE IF ~playing THEN Keep(pos, color)
    ELSE
      LET timeIndex == findIndex(carData.times, t)
          last == Len(carData.times)
      IN  IF timeIndex = 0
          THEN IF last \in DOMAIN carData.positions_normalized
               THEN Keep(Place(carData.positions_normalized[last]), color)
               ELSE Throw(pos, color)
          ELSE IF timeIndex = 1 /\ t <= carData.times[1]
          THEN IF 1 \in DOMAIN carData.positions_normalized
               THEN Keep(Place(carData.positions_normalized[1]), color)
               ELSE Throw(pos, color)
          ELSE interpolate(carData, pos, color, t,
                           IF timeIndex = 1 THEN 2 ELSE timeIndex)

\* The reset branch that precedes the loop: every car with a handle goes to
\* its initial position when the time read is 0 and the previous one was > 0.
resetCars(pos, t, lastTime) ==
    [k \in DOMAIN pos |->
        IF t = 0 /\ lastTime > 0 /\ k \in carRefs
        THEN Place(initialPos(telemetry[k])) ELSE pos[k]]

\* No loop body has run for the car in the frame.
NotRun == 0 - 1

\* Mutant of frameTime: the body of each car reads the clock again, and the
\* clock has moved between two cars.
frameTimeReread(k, t) == t + (k - 1)

\* The currentTime the loop body of car k reads: the const of the callback,
\* assigned once from getCurrentTime() before the loop.
frameTime(k, t) == t

\* telemetry.forEach from car k on: a throw ends the loop and the callback.
\* at[j] is the time the body of car j read, for the bodies that have run.
RECURSIVE carsLoop(_, _, _, _, _, _)
carsLoop(k, pos, color, playing, t, at) ==
    IF k > Len(telemetry)
    THEN [pos |-> pos, color |-> color, threw |-> FALSE, at |-> at]
    ELSE IF k \notin carRefs THEN carsLoop(k + 1, pos, color, playing, t, at)
    ELSE
      LET r == carUpdate(telemetry[k], pos[k], color[k], playing, frameTime(k, t))
          pos1 == [pos EXCEPT ![k] = r.pos]
          color1 == [color EXCEPT ![k] = r.color]
          at1 == [at EXCEPT ![k] = frameTime(k, t)]
      IN  IF r.threw
          THEN [pos |-> pos1, color |-> color1, threw |-> TRUE, at |-> at1]
          ELSE carsLoop(k + 1, pos1, color1, playing, t, at1)

\* The useFrame callback of Cars with the time getCurrentTime() returns.
CarsUseFrame(t) ==
    LET r == carsLoop(1, resetCars(carPos, t, lastTimeRef), carColor, isPlaying, t,
                      [k \in DOMAIN telemetry |-> NotRun])
    IN  /\ carPos' = r.pos
        /\ carColor' = r.color
        /\ frameFault' = r.threw
        /\ lastTimeRef' = t
        /\ sampleTime' = r.at
        /\ UNCHANGED <<telemetry, carRefs>>

\* One frame of the render loop: the callbacks run in the order they were
\* mounted, RaceTimer before Cars, with nothing in between.
Frame ==
    /\ RaceTimerUseFrame
    /\ CarsUseFrame(currentTimeRef')
    /\ lastOp' = Op("frame", wallGap)
    /\ UNCHANGED <<trackVars, sceneVars>>

-----------------------------------------------------------------------------
\* Track: the boundaries and the surface mesh built from the centerline
\*
\* Lengths are counted in units of 0.01.  A float is an exact rational [n, d]
\* (d > 0, lowest terms) or one of NaN, Infinity, NegInfinity (d = 0).  The
\* paths of the model are chosen so that every length the builder takes is
\* the square root of a rational square (LengthsExact); for them every float
\* of the builder is the exact value.

\* A value that an operator reads several times is bound as the element of a
\* one-element set, CHOOSE r \in {F(x) : x \in {e}} : TRUE, so that TLC
\* evaluates e once.

trackWidth == 8      \* const trackWidth = 0.08
CloseDist  == 10     \* first.distanceTo(last) < 0.1
Epsilon    == [n |-> 1, d |-> 100]   \* the 0.0001 of the length tests

IsFinite(q) == q.d # 0

Negate(q) == [n |-> 0 - q.n, d |-> q.d]

\* a + b
Plus(a, b) ==
    IF a.d = 1 /\ b.d = 1 THEN Whole(a.n + b.n)
    ELSE IF IsFinite(a) /\ IsFinite(b) THEN Rat(a.n * b.d + b.n * a.d, a.d * b.d)
    ELSE IF a = NaN \/ b = NaN THEN NaN
    ELSE IF IsFinite(a) THEN b
    ELSE IF IsFinite(b) THEN a
    ELSE IF a = b THEN a ELSE NaN

\* a - b
Minus(a, b) == Plus(a, Negate(b))

\* a * b
Times(a, b) ==
    IF a.d = 1 /\ b.d = 1 THEN Whole(a.n * b.n)
    ELSE IF IsFinite(a) /\ IsFinite(b) THEN Rat(a.n * b.n, a.d * b.d)
    ELSE IF a.n = 0 \/ b.n = 0 THEN NaN
    ELSE IF (a.n > 0) = (b.n > 0) THEN Infinity ELSE NegInfinity

\* a / b
Over(a, b) ==
    IF a = NaN \/ b = NaN THEN NaN
    ELSE IF IsFinite(a) /\ IsFinite(b)
         THEN IF b = Whole(1) THEN a
              ELSE IF b.n # 0 THEN Rat(a.n * b.d, a.d * b.n)
              ELSE IF a.n > 0 THEN Infinity
              ELSE IF a.n < 0 THEN NegInfinity ELSE NaN
    ELSE IF ~IsFinite(a) /\ ~IsFinite(b) THEN NaN
    ELSE IF IsFinite(a) THEN Whole(0)
    ELSE IF (a.n > 0) = (b.n >= 0) THEN Infinity ELSE NegInfinity

\* a < b, false when either is NaN
LessThan(a, b) ==
    IF a = NaN \/ b = NaN THEN FALSE
    ELSE IF IsFinite(a) /\ IsFinite(b) THEN a.n * b.d < b.n * a.d
    ELSE IF a = b THEN FALSE
    ELSE a = NegInfinity \/ b = Infinity

\* The largest integer whose square is at most n (Newton's iteration).
RECURSIVE Newton(_, _)
Newton(n, x) ==
    LET y == (x + n \div x) \div 2
    IN  IF y >= x THEN x ELSE Newton(n, y)

ISqrt(n) == IF n = 0 THEN 0 ELSE Newton(n, n)

IsSquare(q) == ISqrt(q.n) * ISqrt(q.n) = q.n /\ ISqrt(q.d) * ISqrt(q.d) = q.d

\* Math.sqrt(q): exact when q is the square of a rational
SquareRoot(q) ==
    IF q = NaN \/ q = NegInfinity THEN NaN
    ELSE IF q = Infinity THEN Infinity
    ELSE IF q.n < 0 THEN NaN
    ELSE Rat(ISqrt(q.n), ISqrt(q.d))

\* THREE.Vector3
Vector3(x, y, z) == [x |-> x, y |-> y, z |-> z]

subVectors(a, b) == Vector3(Minus(a.x, b.x), Minus(a.y, b.y), Minus(a.z, b.z))

addVectors(a, b) == Vector3(Plus(a.x, b.x), Plus(a.y, b.y), Plus(a.z, b.z))

lengthSq(v) == Plus(Plus(Times(v.x, v.x), Times(v.y, v.y)), Times(v.z, v.z))

length(v) == SquareRoot(lengthSq(v))

divideScalar(v, s) == Vector3(Over(v.x, s), Over(v.y, s), Over(v.z, s))

\* v.normalize() = v.divideScalar(v.length() || 1)
normalize(v) ==
    CHOOSE u \in {divideScalar(v, IF len = Whole(0) \/ len = NaN THEN Whole(1) ELSE len) :
                  len \in {length(v)}} : TRUE

\* v.addScaledVector(n, s) = v + n * s
addScaledVector(v, n, s) ==
    Vector3(Plus(v.x, Times(n.x, s)), Plus(v.y, Times(n.y, s)), Plus(v.z, Times(n.z, s)))

\* a.distanceTo(b) < r, compared by the squares
distanceLess(a, b, r) == LessThan(lengthSq(subVectors(a, b)), Whole(r * r))

\* isNaN(p.x) || isNaN(p.y) || isNaN(p.z)
hasNaN(p) == p.x = NaN \/ p.y = NaN \/ p.z = NaN

\* !isNaN(p.x) && ... && isFinite(p.x) && isFinite(p.y) && isFinite(p.z)
isFinitePoint(p) == IsFinite(p.x) /\ IsFinite(p.y) /\ IsFinite(p.z)

\* An element of trackPath: whether it is an array, its length, and its first
\* three components; a component is a value and its typeof.
Num(q) == [type |-> "number", v |-> q]

Undefined == [type |-> "undefined", v |-> NaN]

\* Mutant of isValidPoint: the types are tested, the values are not.
isValidPointTypeOnly(point) ==
    /\ point.isArray
    /\ point.length >= 3
    /\ point.c[1].type = "number"
    /\ point.c[3].type = "number"

\* Mutant of isValidPoint: only x is tested.
isValidPointXOnly(point) ==
    /\ point.isArray
    /\ point.c[1].type = "number"
    /\ IsFinite(point.c[1].v)

\* Array.isArray(point) && point.length >= 3 && typeof x === 'number' &&
\* typeof z === 'number' && !isNaN(x) && !isNaN(z) && isFinite(x) && isFinite(z)
\* with [x, , z] = point
isValidPoint(point) ==
    /\ point.isArray
    /\ point.length >= 3
    /\ point.c[1].type = "number"
    /\ point.c[3].type = "number"
    /\ point.c[1].v # NaN
    /\ point.c[3].v # NaN
    /\ IsFinite(point.c[1].v)
    /\ IsFinite(point.c[3].v)

\* points.push(new THREE.Vector3(x, 0, z))
flatten(point) == Vector3(point.c[1].v, Whole(0), point.c[3].v)

\* The valid points of the path, flattened, in the order of the path.
RECURSIVE validPoints(_)
validPoints(path) ==
    IF path = <<>> THEN <<>>
    ELSE IF isValidPoint(Head(path))
         THEN <<flatten(Head(path))>> \o validPoints(Tail(path))
         ELSE validPoints(Tail(path))

DefaultNormal == Vector3(Whole(1), Whole(0), Whole(0))

HalfWidth == Rat(trackWidth, 2)

\* curr -/+ normal * trackWidth / 2
offsetPair(curr, normal) ==
    [inner |-> addScaledVector(curr, normal, Negate(HalfWidth)),
     outer |-> addScaledVector(curr, normal, HalfWidth)]

\* (-d.z, 0, d.x), normalized, or (1, 0, 0) when it is shorter than 0.0001
perpendicular(d) ==
    CHOOSE u \in {IF LessThan(length(normal), Epsilon) THEN DefaultNormal
                  ELSE normalize(normal) :
                  normal \in {Vector3(Negate(d.z), Whole(0), d.x)}} : TRUE

prevOf(points, i) == points[IF i > 1 THEN i - 1 ELSE Len(points)]

nextOf(points, i) == points[IF i < Len(points) THEN i + 1 ELSE 1]

\* Mutant of boundaryAt: the textbook offset, with no test of a length and
\* every division carried out as it stands.
boundaryAtNaive(points, i, inner, outer) ==
    CHOOSE pair \in
        {offsetPair(points[i], Vector3(Negate(a.z), Whole(0), a.x)) :
         a \in {divideScalar(avgDir, length(avgDir)) :
                avgDir \in {addVectors(divideScalar(dir1, length(dir1)),
                                       divideScalar(dir2, length(dir2))) :
                            dir1 \in {subVectors(points[i], prevOf(points, i))},
                            dir2 \in {subVectors(nextOf(points, i), points[i])}}}} : TRUE

\* Mutant of boundaryAt: the offset runs along the averaged direction.
boundaryAtAlong(points, i, inner, outer) ==
    CHOOSE pair \in
        {offsetPair(points[i], IF LessThan(length(dirs.avg), Epsilon)
                               THEN dirs.unit1 ELSE normalize(dirs.avg)) :
         dirs \in {[unit1 |-> unit1, avg |-> addVectors(unit1, unit2)] :
                   unit1 \in {normalize(subVectors(points[i], prevOf(points, i)))},
                   unit2 \in {normalize(subVectors(nextOf(points, i), points[i]))}}} : TRUE

\* Mutant of boundaryAt: a direction shorter than 0.0001 always takes the
\* default normal, whatever was pushed before.
boundaryAtDefault(points, i, inner, outer) ==
    CHOOSE pushed \in
      {IF LessThan(length(dir1), Epsilon) \/ LessThan(length(dir2), Epsilon)
       THEN offsetPair(curr, DefaultNormal)
       ELSE CHOOSE averaged \in
              {IF LessThan(length(avgDir), Epsilon)
               THEN offsetPair(curr, perpendicular(normalize(dir1)))
               ELSE CHOOSE checked \in
                      {IF hasNaN(pair.inner) \/ hasNaN(pair.outer)
                       THEN [inner |-> curr, outer |-> curr]
                       ELSE pair :
                       pair \in {offsetPair(curr, perpendicular(normalize(avgDir)))}} : TRUE :
               avgDir \in {addVectors(normalize(dir1), normalize(dir2))}} : TRUE :
       curr \in {points[i]},
       dir1 \in {subVectors(points[i], prevOf(points, i))},
       dir2 \in {subVectors(nextOf(points, i), points[i])}} : TRUE

\* Mutant of boundaryAt: no test of the length of the averaged direction; a
\* reversal goes through the averaged tangent like every other corner.
boundaryAtAveraged(points, i, inner, outer) ==
    CHOOSE pushed \in
      {IF LessThan(length(dir1), Epsilon) \/ LessThan(length(dir2), Epsilon)
       THEN IF Len(inner) > 0
            THEN offsetPair(curr, normalize(subVectors(outer[Len(outer)],
                                                       inner[Len(inner)])))
            ELSE offsetPair(curr, DefaultNormal)
       ELSE CHOOSE checked \in
              {IF hasNaN(pair.inner) \/ hasNaN(pair.outer)
               THEN [inner |-> curr, outer |-> curr]
               ELSE pair :
               pair \in {offsetPair(curr, perpendicular(normalize(
                            addVectors(normalize(dir1), normalize(dir2)))))}} : TRUE :
       curr \in {points[i]},
       dir1 \in {subVectors(points[i], prevOf(points, i))},
       dir2 \in {subVectors(nextOf(points, i), points[i])}} : TRUE

\* The body of the boundary loop for the (1-based) index i: the inner and
\* outer point pushed, given the boundary points pushed so far.
boundaryAt(points, i, inner, outer) ==
    CHOOSE pushed \in
      {IF LessThan(length(dir1), Epsilon) \/ LessThan(length(dir2), Epsilon)
       THEN IF Len(inner) > 0
            THEN offsetPair(curr, normalize(subVectors(outer[Len(outer)],
                                                       inner[Len(inner)])))
            ELSE offsetPair(curr, DefaultNormal)
       ELSE CHOOSE averaged \in
              {IF LessThan(length(avgDir), Epsilon)
               THEN offsetPair(curr, perpendicular(normalize(dir1)))
               ELSE CHOOSE checked \in
                      {IF hasNaN(pair.inner) \/ hasNaN(pair.outer)
                       THEN [inner |-> curr, outer |-> curr]
                       ELSE pair :
                       pair \in {offsetPair(curr, perpendicular(normalize(avgDir)))}} : TRUE :
               avgDir \in {addVectors(normalize(dir1), normalize(dir2))}} : TRUE :
       curr \in {points[i]},
       dir1 \in {subVectors(points[i], prevOf(points, i))},
       dir2 \in {subVectors(nextOf(points, i), points[i])}} : TRUE

\* Mutant of boundaryLoop: the outer point is put in front of the outer
\* boundary (unshift) instead of at its end.
RECURSIVE boundaryLoopUnshift(_, _, _, _)
boundaryLoopUnshift(points, i, inner, outer) ==
    IF i > Len(points)
    THEN [centerPoints |-> points, innerPoints |-> inner, outerPoints |-> outer]
    ELSE CHOOSE b \in
           {boundaryLoopUnshift(points, i + 1, Append(inner, pair.inner),
                                <<pair.outer>> \o outer) :
            pair \in {boundaryAt(points, i, inner, outer)}} : TRUE

\* for (let i = 0; i < points.length; i++), from index i on
RECURSIVE boundaryLoop(_, _, _, _)
boundaryLoop(points, i, inner, outer) ==
    IF i > Len(points)
    THEN [centerPoints |-> points, innerPoints |-> inner, outerPoints |-> outer]
    ELSE CHOOSE b \in
           {boundaryLoop(points, i + 1, Append(inner, pair.inner),
                         Append(outer, pair.outer)) :
            pair \in {boundaryAt(points, i, inner, outer)}} : TRUE

EmptyBoundary == [centerPoints |-> <<>>, innerPoints |-> <<>>, outerPoints |-> <<>>]

\* Mutant of boundary: the test of the number of valid points is missing.
boundaryNoCount(path) ==
    IF ~path.given THEN EmptyBoundary
    ELSE boundaryLoop(validPoints(path.points), 1, <<>>, <<>>)

\* The first useMemo: { centerPoints, innerPoints, outerPoints } of a path.
boundary(path) ==
    IF ~path.given \/ Len(path.points) < 2 THEN EmptyBoundary
    ELSE CHOOSE b \in
           {IF Len(points) < 2 THEN EmptyBoundary
            ELSE boundaryLoop(points, 1, <<>>, <<>>) :
            points \in {validPoints(path.points)}} : TRUE

\* points.filter(p => all three components are finite numbers)
RECURSIVE finitePoints(_)
finitePoints(points) ==
    IF points = <<>> THEN <<>>
    ELSE IF isFinitePoint(Head(points))
         THEN <<Head(points)>> \o finitePoints(Tail(points))
         ELSE finitePoints(Tail(points))

NoGeometry == [built |-> FALSE, vertices |-> <<>>, indices |-> <<>>]

\* [Inner0, Outer0, Inner1, Outer1, ...]
RECURSIVE meshVertices(_, _, _)
meshVertices(inner, outer, i) ==
    IF i > Len(inner) THEN <<>>
    ELSE <<inner[i], outer[i]>> \o meshVertices(inner, outer, i + 1)

\* Mutant of quadIndices: the second triangle of each quad is
\* (outer[i], inner[i+1], outer[i+1]).
RECURSIVE quadIndicesFlipped(_, _)
quadIndicesFlipped(n, i) ==
    IF i >= n - 1 THEN <<>>
    ELSE <<<<2 * i, 2 * i + 1, 2 * i + 2>>, <<2 * i + 1, 2 * i + 2, 2 * i + 3>>>>
         \o quadIndicesFlipped(n, i + 1)

\* The two triangles of each quad, for i = 0 .. n - 2 (indices from 0).
RECURSIVE quadIndices(_, _)
quadIndices(n, i) ==
    IF i >= n - 1 THEN <<>>
    ELSE <<<<2 * i, 2 * i + 1, 2 * i + 2>>, <<2 * i + 1, 2 * i + 3, 2 * i + 2>>>>
         \o quadIndices(n, i + 1)

\* The two triangles that connect the last pair to the first.
closingIndices(n) ==
    <<<<(n - 1) * 2, (n - 1) * 2 + 1, 0>>, <<(n - 1) * 2 + 1, 1, 0>>>>

\* The second useMemo: the surface mesh of the valid boundary points.
asphalt(validInner, validOuter) ==
    IF Len(validInner) < 2 \/ Len(validOuter) < 2
    THEN NoGeometry
    ELSE [built |-> TRUE,
          vertices |-> meshVertices(validInner, validOuter, 1),
          indices |-> quadIndices(Len(validInner), 0) \o
                      (IF distanceLess(validInner[1], validInner[Len(validInner)],
                                       CloseDist)
                       THEN closingIndices(Len(validInner)) ELSE <<>>)]

\* validInnerPoints.forEach reads outer.x of validOuterPoints[i]: a TypeError
\* when the outer boundary has fewer valid points than the inner one.
asphaltThrows(validInner, validOuter) ==
    /\ Len(validInner) >= 2
    /\ Len(validOuter) >= 2
    /\ Len(validOuter) < Len(validInner)

\* The render of Track after the first memo, for the boundary b it returned:
\* null before the mesh memo is reached, or the mesh memo and the group.
surface(b) ==
    IF Len(b.centerPoints) = 0 \/ Len(finitePoints(b.centerPoints)) < 2
    THEN [boundary |-> b, geometry |-> NoGeometry, output |-> "null"]
    ELSE CHOOSE r \in
           {IF asphaltThrows(vi, vo)
            THEN [boundary |-> b, geometry |-> NoGeometry, output |-> "error"]
            ELSE [boundary |-> b, geometry |-> asphalt(vi, vo), output |-> "group"] :
            vi \in {finitePoints(b.innerPoints)},
            vo \in {finitePoints(b.outerPoints)}} : TRUE

\* One render of Track that runs both memos: the boundary of the path, and
\* the mesh unless the component returned null before it came to build one.
track(path) == CHOOSE r \in {surface(b) : b \in {boundary(path)}} : TRUE

NoRebuild == [boundary |-> FALSE, mesh |-> FALSE]

\* A render of Track.  The first render of a mount runs the boundary memo.  A
\* later render has the trackPath of the render before it, so useMemo hands
\* back the boundary it kept; validInnerPoints and validOuterPoints are new
\* arrays in every render, so the mesh memo, whose dependencies they are,
\* runs its function again whenever the render reaches it.
TrackRender ==
    /\ IF trackOutput = "unmounted"
       THEN \E r \in {track(trackPath)} :
                /\ centerPoints' = r.boundary.centerPoints
                /\ innerPoints' = r.boundary.innerPoints
                /\ outerPoints' = r.boundary.outerPoints
                /\ asphaltGeometry' = r.geometry
                /\ trackOutput' = r.output
                /\ rebuilt' = [boundary |-> TRUE, mesh |-> r.output # "null"]
       ELSE \E r \in {surface([centerPoints |-> centerPoints,
                               innerPoints |-> innerPoints,
                               outerPoints |-> outerPoints])} :
                /\ asphaltGeometry' = r.geometry
                /\ trackOutput' = r.output
                /\ rebuilt' = [boundary |-> FALSE, mesh |-> r.output # "null"]
                /\ UNCHANGED <<centerPoints, innerPoints, outerPoints>>
    /\ lastOp' = Op("trackRender", 0)
    /\ UNCHANGED <<trackPath, clockVars, wallGap, speedArgs, carVars, sceneVars>>

\* The paths a Track is mounted with after the first one.
RemountPaths ==
    {[given |-> TRUE, points |-> <<>>],
     [given |-> TRUE,
      points |-> <<[isArray |-> TRUE, length |-> 3,
                    c |-> <<Num(Whole(0)), Num(Whole(7)), Num(Whole(0))>>],
                   [isArray |-> TRUE, length |-> 3,
                    c |-> <<Num(Whole(100)), Num(Whole(7)), Num(Whole(0))>>]>>]}

\* Another session is selected: ARScene returns null while its data loads,
\* which unmounts Track and discards its memos, and mounts a new Track with
\* the path of the new data.
TrackRemount ==
    /\ trackOutput # "unmounted"
    /\ trackPath' \in RemountPaths
    /\ centerPoints' = <<>>
    /\ innerPoints' = <<>>
    /\ outerPoints' = <<>>
    /\ asphaltGeometry' = NoGeometry
    /\ trackOutput' = "unmounted"
    /\ rebuilt' = NoRebuild
    /\ lastOp' = Op("trackRemount", 0)
    /\ UNCHANGED <<clockVars, wallGap, speedArgs, carVars, sceneVars>>

\* No Track is mounted.
-----------------------------------------------------------------------------
\* ARControls: the trigger of the controller and the four buttons
\*
\* Date.now() is counted in units of 150 ms.  The ray cast of a frame is an
\* input: the button the controller points at, or none.

DebounceGap == 2     \* now - lastTriggerTimeRef.current > 300
MaxNow == 6          \* the wall clock of the model stops here

Controllers == {"left", "right"}
Buttons == {"play", "reset", "speedUp", "speedDown"}
NoButton == "none"

\* The number a step of the controls is recorded with for the button whose
\* action it invoked; 0 when it invoked none.
ButtonCode(name) ==
    IF name = "play" THEN 1 ELSE IF name = "reset" THEN 2
    ELSE IF name = "speedUp" THEN 3 ELSE IF name = "speedDown" THEN 4 ELSE 0

\* button.action() of the button of that name, called from the frame: the
\* writes of togglePlay, reset and the two speed buttons.
buttonAction(name) ==
    /\ isPlayingState' = IF name = "play" THEN ~isPlayingState
                         ELSE IF name = "reset" THEN FALSE ELSE isPlayingState
    /\ currentTimeRef' = IF name = "reset" THEN 0 ELSE currentTimeRef
    /\ currentTimeState' = IF name = "reset" THEN 0 ELSE currentTimeState
    /\ playbackSpeedState' =
          IF name = "speedUp" THEN setPlaybackSpeed(speedUpValue(playbackSpeed))
          ELSE IF name = "speedDown" THEN setPlaybackSpeed(speedDownValue(playbackSpeed))
          ELSE playbackSpeedState

\* const controller = rightController || leftController
selectedController ==
    IF "right" \in connected THEN "right"
    ELSE IF "left" \in connected THEN "left" ELSE NoButton

\* !triggerPressedRef.current && now - lastTriggerTimeRef.current > 300
debounced(pressedBefore, t, last) == ~pressedBefore /\ t - last > DebounceGap

\* The useFrame callback of ARControls, with the button hitButton the ray
\* cast of the frame found.
ControlsFrame(hitButton) ==
    /\ IF selectedController = NoButton
       THEN /\ UNCHANGED <<isPlayingState, currentTimeRef, currentTimeState,
                           playbackSpeedState, hoveredButtonState, triggerPressedRef,
                           lastTriggerTimeRef, clicks, lastActionTime>>
            /\ lastOp' = Op("controlsFrame", 0)
       ELSE /\ hoveredButtonState' =
                  IF hitButton # hoveredButton THEN hitButton ELSE hoveredButtonState
            /\ IF selectedController \in held
               THEN IF debounced(triggerPressedRef, now, lastTriggerTimeRef)
                    THEN /\ triggerPressedRef' = TRUE
                         /\ lastTriggerTimeRef' = now
                         /\ \E buttonToClick \in
                                {IF hitButton # NoButton THEN hitButton ELSE hoveredButton} :
                              IF buttonToClick \in Buttons
                              THEN /\ buttonAction(buttonToClick)
                                   /\ clicks' = [clicks EXCEPT ![selectedController] = @ + 1]
                                   /\ lastActionTime' = now
                                   /\ lastOp' = Op("controlsFrame", ButtonCode(buttonToClick))
                              ELSE /\ buttonAction(NoButton)
                                   /\ UNCHANGED <<clicks, lastActionTime>>
                                   /\ lastOp' = Op("controlsFrame", 0)
                    ELSE /\ buttonAction(NoButton)
                         /\ UNCHANGED <<triggerPressedRef, lastTriggerTimeRef, clicks,
                                        lastActionTime>>
                         /\ lastOp' = Op("controlsFrame", 0)
               ELSE /\ triggerPressedRef' = FALSE
                    /\ buttonAction(NoButton)
                    /\ UNCHANGED <<lastTriggerTimeRef, clicks, lastActionTime>>
                    /\ lastOp' = Op("controlsFrame", 0)
    /\ UNCHANGED <<isPlaying, playbackSpeed, currentTime, wallGap, speedArgs,
                   connected, held, now, hoveredButton, carVars, trackVars, dataVars, uiVars, startVars>>

\* A render of ARControls: the callback captures the stored hover.
ControlsRender ==
    /\ hoveredButton # hoveredButtonState
    /\ hoveredButton' = hoveredButtonState
    /\ lastOp' = Op("controlsRender", 0)
    /\ UNCHANGED <<clockVars, wallGap, speedArgs, connected, held, now,
                   triggerPressedRef, lastTriggerTimeRef, hoveredButtonState, clicks,
                   lastActionTime, carVars, trackVars, dataVars, uiVars, startVars>>

\* The user pulls the trigger of controller c: a new hold begins.
Press(c) ==
    /\ c \notin held
    /\ held' = held \cup {c}
    /\ clicks' = [clicks EXCEPT ![c] = 0]
    /\ lastOp' = Op("press", 0)
    /\ UNCHANGED <<clockVars, wallGap, speedArgs, connected, now, triggerPressedRef,
                   lastTriggerTimeRef, hoveredButtonState, hoveredButton,
                   lastActionTime, carVars, trackVars, dataVars, uiVars, startVars>>

\* The user lets go of the trigger of controller c.
Release(c) ==
    /\ c \in held
    /\ held' = held \ {c}
    /\ lastOp' = Op("release", 0)
    /\ UNCHANGED <<clockVars, wallGap, speedArgs, connected, now, triggerPressedRef,
                   lastTriggerTimeRef, hoveredButtonState, hoveredButton, clicks,
                   lastActionTime, carVars, trackVars, dataVars, uiVars, startVars>>

\* A controller connects or disconnects: useController returns it or not.
Reconnect(c) ==
    /\ connected' = IF c \in connected THEN connected \ {c} ELSE connected \cup {c}
    /\ lastOp' = Op("reconnect", 0)
    /\ UNCHANGED <<clockVars, wallGap, speedArgs, held, now, triggerPressedRef,
                   lastTriggerTimeRef, hoveredButtonState, hoveredButton, clicks,
                   lastActionTime, carVars, trackVars, dataVars, uiVars, startVars>>

\* 150 ms of wall-clock time pass.
Tick ==
    /\ now < MaxNow
    /\ now' = now + 1
    /\ lastOp' = Op("tick", 0)
    /\ UNCHANGED <<clockVars, wallGap, speedArgs, connected, held, triggerPressedRef,
                   lastTriggerTimeRef, hoveredButtonState, hoveredButton, clicks,
                   lastActionTime, carVars, trackVars, dataVars, uiVars, startVars>>

NoAction == 0 - 1

\* ARControls has been mounted: Date.now() is far beyond 300.
ControlsMounted ==
    /\ connected \in SUBSET Controllers
    /\ held = {}
    /\ now = DebounceGap + 1
    /\ triggerPressedRef = FALSE
    /\ lastTriggerTimeRef = 0
    /\ hoveredButtonState = NoButton
    /\ hoveredButton = NoButton
    /\ clicks = [c \in Controllers |-> 0]
    /\ lastActionTime = NoAction

NoControls ==
    /\ connected = {}
    /\ held = {}
    /\ now = 0
    /\ triggerPressedRef = FALSE
    /\ lastTriggerTimeRef = 0
    /\ hoveredButtonState = NoButton
    /\ hoveredButton = NoButton
    /\ clicks = [c \in Controllers |-> 0]
    /\ lastActionTime = NoAction

-----------------------------------------------------------------------------
\* useRaceData: the fetch of the selected race file
\*
\* The JSON of a race file is named by the file; no file is NoRace.

RaceFiles == {"A", "B"}
NoRace == "none"
MaxFetches == 4      \* the model starts at most this many fetches

\* The effect of useRaceData for the raceFile f, which runs when raceFile has
\* changed: it clears the state for no file, and starts a fetch for a file.
\* The selection and the effects of the render that follows are one step; the
\* effect of UI that copies selectedRace to its ref is one of them.
SelectRace(f) ==
    /\ f # raceFile
    /\ raceFile' = f
    /\ IF f = NoRace
       THEN /\ loading' = FALSE
            /\ data' = NoRace
            /\ error' = FALSE
            /\ UNCHANGED <<inFlight, fetches>>
       ELSE /\ fetches < MaxFetches
            /\ loading' = TRUE
            /\ error' = FALSE
            /\ inFlight' = [inFlight EXCEPT ![f] = @ + 1]
            /\ fetches' = fetches + 1
            /\ UNCHANGED data
    /\ selectedRaceRef' = f
    /\ lastOp' = Op("selectRace", 0)
    /\ UNCHANGED <<clockVars, wallGap, speedArgs, carVars, trackVars, controlVars,
                   sessionVars, startVars>>

\* The fetch of file f completes with its JSON: setData(json); setLoading(false).
FetchResolved(f) ==
    /\ inFlight[f] > 0
    /\ inFlight' = [inFlight EXCEPT ![f] = @ - 1]
    /\ data' = f
    /\ loading' = FALSE
    /\ lastOp' = Op("fetchResolved", 0)
    /\ UNCHANGED <<raceFile, error, fetches, clockVars, wallGap, speedArgs, carVars,
                   trackVars, controlVars, uiVars, startVars>>

\* The fetch of file f fails: setError(err.message); setLoading(false).
FetchRejected(f) ==
    /\ inFlight[f] > 0
    /\ inFlight' = [inFlight EXCEPT ![f] = @ - 1]
    /\ error' = TRUE
    /\ loading' = FALSE
    /\ lastOp' = Op("fetchRejected", 0)
    /\ UNCHANGED <<raceFile, data, fetches, clockVars, wallGap, speedArgs, carVars,
                   trackVars, controlVars, uiVars, startVars>>

\* The hook with no file selected, after its first effect.
NoData ==
    /\ raceFile = NoRace
    /\ data = NoRace
    /\ loading = FALSE
    /\ error = FALSE
    /\ inFlight = [f \in RaceFiles |-> 0]
    /\ fetches = 0

-----------------------------------------------------------------------------
\* UI: the entry screen and the XR session
\*
\* A session that starts is announced twice: renderer.xr dispatches
\* 'sessionstart' and the converted button calls onSessionStarted; its end
\* likewise, by 'sessionend' and onSessionEnded.  The notifications of the
\* start are delivered before those of the end.

StartNotices == {"sessionstart", "onSessionStarted"}
EndNotices == {"sessionend", "onSessionEnded"}

\* const isPresenting = sessionActive || arStatus === 'entered'
isPresentingUI == sessionActive \/ arStatus = "entered"

\* The user clicks Enter AR on the entry screen and the session is granted.
\* With the converted button the library sets the session and calls
\* onSessionStarted; without it the onClick fallback asks for the session
\* itself, only when a race is selected, and sets the state at once.
EnterAR ==
    /\ ~isPresentingUI
    /\ xrSession = "none"
    /\ pendingStart = {} /\ pendingEnd = {}
    /\ IF ratkSetup
       THEN /\ pendingStart' = StartNotices
            /\ UNCHANGED <<sessionActive, arStatus>>
       ELSE /\ selectedRaceRef # NoRace
            /\ pendingStart' = {"sessionstart"}
            /\ sessionActive' = TRUE
            /\ arStatus' = "entered"
    /\ xrSession' = "running"
    /\ lastOp' = Op("enterAR", 0)
    /\ UNCHANGED <<clockVars, wallGap, speedArgs, carVars, trackVars, controlVars,
                   dataVars, startVars, selectedRaceRef, ratkSetup, pendingEnd>>

\* handleSessionStart, the listener of renderer.xr 'sessionstart'
HandleSessionStart ==
    /\ "sessionstart" \in pendingStart
    /\ pendingStart' = pendingStart \ {"sessionstart"}
    /\ sessionActive' = TRUE
    /\ arStatus' = "entered"
    /\ lastOp' = Op("handleSessionStart", 0)
    /\ UNCHANGED <<clockVars, wallGap, speedArgs, carVars, trackVars, controlVars,
                   dataVars, startVars, selectedRaceRef, ratkSetup, xrSession, pendingEnd>>

\* The notifications of the end of a session.
endNotices(converted) == IF converted THEN EndNotices ELSE {"sessionend"}

\* onSessionStarted(session) of the converted button
OnSessionStarted ==
    /\ "onSessionStarted" \in pendingStart
    /\ pendingStart' = pendingStart \ {"onSessionStarted"}
    /\ IF selectedRaceRef = NoRace
       THEN /\ xrSession' = "ending"
            /\ pendingEnd' = endNotices(ratkSetup)
            /\ UNCHANGED <<sessionActive, arStatus>>
       ELSE /\ sessionActive' = TRUE
            /\ arStatus' = "entered"
            /\ UNCHANGED <<xrSession, pendingEnd>>
    /\ lastOp' = Op("onSessionStarted", 0)
    /\ UNCHANGED <<clockVars, wallGap, speedArgs, carVars, trackVars, controlVars,
                   dataVars, startVars, selectedRaceRef, ratkSetup>>

\* The user or the system ends the running session.
ExitAR ==
    /\ xrSession = "running"
    /\ pendingStart = {}
    /\ xrSession' = "ending"
    /\ pendingEnd' = endNotices(ratkSetup)
    /\ lastOp' = Op("exitAR", 0)
    /\ UNCHANGED <<clockVars, wallGap, speedArgs, carVars, trackVars, controlVars,
                   dataVars, startVars, selectedRaceRef, ratkSetup, sessionActive, arStatus,
                   pendingStart>>

\* handleSessionEnd and onSessionEnded: both store the same.
SessionEnded(notice) ==
    /\ pendingStart = {}
    /\ notice \in pendingEnd
    /\ pendingEnd' = pendingEnd \ {notice}
    /\ xrSession' = IF pendingEnd = {notice} THEN "none" ELSE xrSession
    /\ sessionActive' = FALSE
    /\ arStatus' = "exited"
    /\ lastOp' = Op(notice, 0)
    /\ UNCHANGED <<clockVars, wallGap, speedArgs, carVars, trackVars, controlVars,
                   dataVars, startVars, selectedRaceRef, ratkSetup, pendingStart>>

\* A race is picked in RaceSelector, which the entry screen shows.
PickRace(f) == ~isPresentingUI /\ SelectRace(f)

NoSession ==
    /\ sessionActive = FALSE
    /\ arStatus = "exited"
    /\ xrSession = "none"
    /\ pendingStart = {}
    /\ pendingEnd = {}

\* UI has been mounted with no race selected.
NoUI == selectedRaceRef = NoRace /\ ratkSetup = FALSE /\ NoSession

-----------------------------------------------------------------------------
\* ARScene: the effect that seeks to the start of the race
\*
\* The times of this telemetry are counted in units of 25 ms, as the race
\* time is, and its positions in units of 0.01, so the threshold of the
\* effect, distSq > 0.0001, is distSq > 1 here.

StartLead       == 80    \* firstMoveTime - 2: two seconds
MoveThresholdSq == 1     \* distSq > 0.0001
SampleStride    == 10    \* i += 10
CarsChecked     == 5     \* data.telemetry.slice(0, 5)
MaxAlign        == 2     \* seeks of the effect that the history counts

\* A car of the telemetry that stands at (0, 5, 0) for its first `still`
\* samples and then moves along x by 3 a sample; one sample every 4 units of
\* time from t0 on, of which the first `timed` have a time.
CarSeries(samples, still, timed, t0) ==
    [positions_normalized |->
        [i \in 1..samples |-> <<IF i <= still THEN 0 ELSE 3 * (i - still), 5, 0>>],
     times |-> [i \in 1..timed |-> t0 + 4 * (i - 1)]]

Parked    == CarSeries(21, 21, 21, 0)
LateMover == CarSeries(21, 15, 21, 40)   \* seen moving at sample 20, time 120
Starter   == CarSeries(21, 5, 21, 60)    \* seen moving at sample 10, time 100
Sprinter  == CarSeries(11, 0, 11, 0)     \* seen moving at sample 10, time 40
Untimed   == CarSeries(21, 5, 8, 0)      \* seen moving at sample 10, which has no time
NoSamples == CarSeries(0, 0, 0, 0)

Telemetries ==
    { <<>>,
      <<Parked>>,
      <<LateMover>>,
      <<Sprinter>>,
      <<NoSamples, LateMover, Starter>>,
      <<Untimed>>,
      <<Parked, Parked, Parked, Parked, Parked, Starter>> }

\* const carsToCheck = data.telemetry.slice(0, 5)
carsToCheck(cars) == SubSeq(cars, 1, Min(CarsChecked, Len(cars)))

\* (pos[0] - startPos[0]) ** 2 + (pos[2] - startPos[2]) ** 2
distSq(pos, startPos) ==
    (pos[1] - startPos[1]) * (pos[1] - startPos[1])
        + (pos[3] - startPos[3]) * (pos[3] - startPos[3])

\* The index at which the inner loop breaks for a car: the first of 0, 10,
\* 20, ... below positions.length whose position is past the threshold; -1
\* when the loop runs to its end, or the car has no startPos.
breakIndex(car) ==
    LET positions == car.positions_normalized
        moved == {i \in 0..(Len(positions) - 1) :
                     /\ i % SampleStride = 0
                     /\ distSq(positions[i + 1], positions[1]) > MoveThresholdSq}
    IN  IF moved = {} THEN 0 - 1
        ELSE CHOOSE i \in moved : \A j \in moved : i <= j

\* The outer loop from car k on.  found is true exactly when firstMoveTime
\* has been assigned, so firstMoveTime = Infinity is found = FALSE;
\* times[i] < firstMoveTime is false for a times[i] that is undefined.
RECURSIVE scanCars(_, _, _)
scanCars(cars, k, acc) ==
    IF k > Len(cars) THEN acc
    ELSE \* the bound value is used several times: it is computed once
         LET i == CHOOSE r \in {breakIndex(cars[k])} : TRUE
         IN  IF /\ i >= 0
                /\ i + 1 <= Len(cars[k].times)
                /\ (~acc.found \/ cars[k].times[i + 1] < acc.firstMoveTime)
             THEN scanCars(cars, k + 1,
                           [found |-> TRUE, firstMoveTime |-> cars[k].times[i + 1]])
             ELSE scanCars(cars, k + 1, acc)

firstMove(cars) ==
    scanCars(carsToCheck(cars), 1, [found |-> FALSE, firstMoveTime |-> 0])

\* Mutant of StartTimeEffect: the effect without hasSetStartTime.
StartTimeEffectUnguarded ==
    /\ seeks < MaxAlign
    /\ \E scan \in {IF data # NoRace THEN firstMove(raceJSON[data])
                    ELSE [found |-> FALSE, firstMoveTime |-> 0]} :
         IF data # NoRace /\ scan.found
         THEN /\ currentTimeRef' = Max(0, scan.firstMoveTime - StartLead)
              /\ currentTimeState' = Max(0, scan.firstMoveTime - StartLead)
              /\ hasSetStartTime' = TRUE
              /\ seeks' = seeks + 1
              /\ lastOp' = Op("startTimeEffect", Max(0, scan.firstMoveTime - StartLead))
         ELSE /\ lastOp' = Op("startTimeEffect", 0 - 1)
              /\ UNCHANGED <<currentTimeRef, currentTimeState, hasSetStartTime, seeks>>
    /\ UNCHANGED <<isPlayingState, playbackSpeedState, isPlaying, playbackSpeed,
                   currentTime, raceJSON, wallGap, speedArgs, carVars, trackVars,
                   controlVars, dataVars, uiVars>>

\* One run of the effect, with the data of the render it follows.  Its
\* dependencies are data and setTime, and setTime is a new function at every
\* render of the provider, so the effect runs after any of them.
StartTimeEffect ==
    /\ seeks < MaxAlign
    /\ \E scan \in {IF data # NoRace THEN firstMove(raceJSON[data])
                    ELSE [found |-> FALSE, firstMoveTime |-> 0]} :
         IF data # NoRace /\ ~hasSetStartTime /\ scan.found
         THEN /\ currentTimeRef' = Max(0, scan.firstMoveTime - StartLead)
              /\ currentTimeState' = Max(0, scan.firstMoveTime - StartLead)
              /\ hasSetStartTime' = TRUE
              /\ seeks' = seeks + 1
              /\ lastOp' = Op("startTimeEffect", Max(0, scan.firstMoveTime - StartLead))
         ELSE /\ lastOp' = Op("startTimeEffect", 0 - 1)
              /\ UNCHANGED <<currentTimeRef, currentTimeState, hasSetStartTime, seeks>>
    /\ UNCHANGED <<isPlayingState, playbackSpeedState, isPlaying, playbackSpeed,
                   currentTime, raceJSON, wallGap, speedArgs, carVars, trackVars,
                   controlVars, dataVars, uiVars>>

\* ARScene before any race file was loaded.
NoStart ==
    /\ raceJSON = [f \in RaceFiles |-> <<>>]
    /\ hasSetStartTime = FALSE
    /\ seeks = 0

NoScene == NoControls /\ NoData /\ NoUI /\ NoStart

NoTrack ==
    /\ trackPath = [given |-> FALSE, points |-> <<>>]
    /\ centerPoints = <<>>
    /\ innerPoints = <<>>
    /\ outerPoints = <<>>
    /\ asphaltGeometry = NoGeometry
    /\ trackOutput = "unmounted"
    /\ rebuilt = NoRebuild

-----------------------------------------------------------------------------
NoCars ==
    /\ telemetry = <<>>
    /\ carRefs = {}
    /\ carPos = <<>>
    /\ carColor = <<>>
    /\ lastTimeRef = 0 - 1
    /\ frameFault = FALSE
    /\ sampleTime = <<>>

ClockInit ==
    /\ isPlayingState = FALSE
    /\ playbackSpeedState = InitSpeed
    /\ currentTimeState = 0
    /\ isPlaying = FALSE
    /\ playbackSpeed = InitSpeed
    /\ currentTime = 0
    /\ currentTimeRef = 0
    /\ wallGap = 0
    /\ lastOp = Op("init", 0)
    /\ speedArgs = "inRange"

Init == ClockInit /\ NoCars /\ NoTrack /\ NoScene

\* The telemetry of the model: a small catalogue of series.  The y value of
\* every sample is 5, which no mesh ever shows.
SeriesA ==
    [driver |-> "A",
     times |-> <<0, 2, 4>>,
     positions_normalized |-> <<<<0, 5, 0>>, <<10, 5, 2>>, <<20, 5, 4>>>>,
     throttle |-> <<100, 0, 100>>,
     brake |-> <<FALSE, TRUE, FALSE>>]

SeriesB ==
    [driver |-> "B",
     times |-> <<2, 5>>,
     positions_normalized |-> <<<<3, 5, 1>>, <<7, 5, 2>>>>,
     throttle |-> <<0, 100>>,
     brake |-> <<TRUE, FALSE>>]

SeriesS ==
    [driver |-> "S",
     times |-> <<3>>,
     positions_normalized |-> <<<<8, 5, 9>>>>,
     throttle |-> <<100>>,
     brake |-> <<FALSE>>]

SeriesE ==
    [driver |-> "E",
     times |-> <<>>,
     positions_normalized |-> <<>>,
     throttle |-> <<>>,
     brake |-> <<>>]

\* Two samples share the last timestamp.
SeriesD ==
    [driver |-> "D",
     times |-> <<0, 3, 3>>,
     positions_normalized |-> <<<<1, 5, 1>>, <<4, 5, 2>>, <<6, 5, 8>>>>,
     throttle |-> <<0, 100, 0>>,
     brake |-> <<FALSE, FALSE, TRUE>>]

\* The first two samples share their timestamp, the third brakes at full
\* throttle, and the throttle and brake channels lack the fourth sample.
SeriesN ==
    [driver |-> "N",
     times |-> <<0, 0, 2, 4>>,
     positions_normalized |-> <<<<2, 5, 2>>, <<3, 5, 3>>, <<5, 5, 7>>, <<9, 5, 8>>>>,
     throttle |-> <<0, 0, 100>>,
     brake |-> <<FALSE, FALSE, TRUE>>]

TelemetryOptions ==
    {<<SeriesA, SeriesB>>, <<SeriesB, SeriesS>>, <<SeriesA, SeriesE>>,
     <<SeriesD, SeriesA>>, <<SeriesE, SeriesA>>, <<SeriesN, SeriesB>>}

\* A new mesh: THREE.Object3D starts at the origin, the material is white.
Origin == [x |-> Whole(0), y |-> 0, z |-> Whole(0)]

CarsInit ==
    /\ ClockInit
    /\ telemetry \in TelemetryOptions
    /\ carRefs \in {1..Len(telemetry), {1}}
    /\ carPos = [k \in 1..Len(telemetry) |-> Origin]
    /\ carColor = [k \in 1..Len(telemetry) |-> White]
    /\ lastTimeRef = 0 - 1
    /\ frameFault = FALSE
    /\ sampleTime = [k \in 1..Len(telemetry) |-> NotRun]
    /\ NoTrack
    /\ NoScene

Next ==
    \/ \E delta \in Deltas : AdvanceTime(delta)
    \/ \E time \in SeekTimes : SetTime(time)
    \/ TogglePlay
    \/ Reset
    \/ \E m \in DirectSpeeds : SetPlaybackSpeed(m)
    \/ SpeedUp
    \/ SpeedDown
    \/ RaceTimerFrame
    \/ WallClock
    \/ Render

Spec == Init /\ [][Next]_vars

\* The scene with its cars: the frames of the render loop and the controls
\* the application wires to the clock.
CarsNext ==
    \/ TogglePlay
    \/ Reset
    \/ \E time \in SeekTimes : SetTime(time)
    \/ Frame
    \/ WallClock
    \/ Render

CarsSpec == CarsInit /\ [][CarsNext]_vars

\* The paths of the model.  A path is a sequence of at most MaxPath elements
\* of one of four families of points whose mutual distances are rational:
\* points of the x axis, two of them together with malformed elements, points
\* of the line through (0, 0) and (3, 4), and the corners of a triangle with
\* the sides 14, 25 and 25.
MaxPath == 4

\* [x, 7, z]: the y of the input is 7 and never reaches the output.
Point(x, z) == [isArray |-> TRUE, length |-> 3, c |-> <<Num(x), Num(Whole(7)), Num(z)>>]

\* An element that is no array (null, a number, an object).
NotArray == [isArray |-> FALSE, length |-> 0, c |-> <<Undefined, Undefined, Undefined>>]

\* [100, 0]: an array of two numbers.
ShortPoint == [isArray |-> TRUE, length |-> 2, c |-> <<Num(Whole(100)), Num(Whole(0)), Undefined>>]

\* [NaN, 0, 0], [100, 0, Infinity] and [100, NaN, 0]
NaNX == [isArray |-> TRUE, length |-> 3, c |-> <<Num(NaN), Num(Whole(0)), Num(Whole(0))>>]

InfinityZ == [isArray |-> TRUE, length |-> 3, c |-> <<Num(Whole(100)), Num(Whole(0)), Num(Infinity)>>]

NaNY == [isArray |-> TRUE, length |-> 3, c |-> <<Num(Whole(100)), Num(NaN), Num(Whole(0))>>]

AxisPoints ==
    {Point(Whole(0), Whole(0)), Point(Rat(1, 200), Whole(0)), Point(Whole(5), Whole(0)),
     Point(Whole(100), Whole(0)), Point(Whole(200), Whole(0))}

MalformedPoints == {NotArray, ShortPoint, NaNX, InfinityZ, NaNY}

MixedPoints ==
    {Point(Whole(0), Whole(0)), Point(Whole(100), Whole(0))} \cup MalformedPoints

DiagonalPoints ==
    {Point(Whole(0), Whole(0)), Point(Whole(3), Whole(4)), Point(Whole(6), Whole(8))}

TrianglePoints ==
    {Point(Whole(0), Whole(0)), Point(Whole(14), Whole(0)), Point(Whole(7), Whole(24))}

PathsOver(S) == UNION {[1..n -> S] : n \in 0..MaxPath}

TrackPaths ==
    {[given |-> FALSE, points |-> <<>>]} \cup
    {[given |-> TRUE, points |-> p] :
        p \in PathsOver(AxisPoints) \cup PathsOver(MixedPoints)
              \cup PathsOver(DiagonalPoints) \cup PathsOver(TrianglePoints)}

\* Track is mounted with a path and has not rendered yet.
TrackInit ==
    /\ ClockInit
    /\ NoCars
    /\ trackPath \in TrackPaths
    /\ centerPoints = <<>>
    /\ innerPoints = <<>>
    /\ outerPoints = <<>>
    /\ asphaltGeometry = NoGeometry
    /\ trackOutput = "unmounted"
    /\ rebuilt = NoRebuild
    /\ NoScene

TrackNext == TrackRender \/ TrackRemount

TrackSpec == TrackInit /\ [][TrackNext]_vars

\* The controllers and the buttons: the frames of ARControls, what the user
\* does with the triggers, and the renders.  The frames of RaceTimer and Cars
\* write no variable of the trigger handling and are left out.
ControlsInit == ClockInit /\ NoCars /\ NoTrack /\ ControlsMounted /\ NoData /\ NoUI /\ NoStart

ControlsNext ==
    \/ \E hitButton \in Buttons \cup {NoButton} : ControlsFrame(hitButton)
    \/ ControlsRender
    \/ Render
    \/ \E c \in Controllers : Press(c)
    \/ \E c \in Controllers : Release(c)
    \/ \E c \in Controllers : Reconnect(c)
    \/ Tick

ControlsSpec == ControlsInit /\ [][ControlsNext]_vars

\* The selection of a race file and the fetches it starts.
DataInit == ClockInit /\ NoCars /\ NoTrack /\ NoScene

DataNext ==
    \/ \E f \in RaceFiles \cup {NoRace} : SelectRace(f)
    \/ \E f \in RaceFiles : FetchResolved(f)
    \/ \E f \in RaceFiles : FetchRejected(f)

DataSpec == DataInit /\ [][DataNext]_vars

\* The entry screen: the selection of a race, its fetch, and the XR sessions.
UIInit ==
    /\ ClockInit /\ NoCars /\ NoTrack /\ NoControls /\ NoData /\ NoStart
    /\ selectedRaceRef = NoRace
    /\ ratkSetup \in BOOLEAN
    /\ NoSession

UINext ==
    \/ \E f \in RaceFiles : PickRace(f)
    \/ \E f \in RaceFiles : FetchResolved(f)
    \/ \E f \in RaceFiles : FetchRejected(f)
    \/ EnterAR
    \/ HandleSessionStart
    \/ OnSessionStarted
    \/ ExitAR
    \/ \E notice \in EndNotices : SessionEnded(notice)

UISpec == UIInit /\ [][UINext]_vars

\* The seek to the start of the race: the race files, their fetches, the runs
\* of the effect of ARScene, and play/pause and reset.
StartInit ==
    /\ ClockInit /\ NoCars /\ NoTrack /\ NoControls /\ NoData /\ NoUI
    /\ raceJSON \in [RaceFiles -> Telemetries]
    /\ hasSetStartTime = FALSE
    /\ seeks = 0

StartNext ==
    \/ \E f \in RaceFiles \cup {NoRace} : SelectRace(f)
    \/ \E f \in RaceFiles : FetchResolved(f)
    \/ \E f \in RaceFiles : FetchRejected(f)
    \/ StartTimeEffect
    \/ TogglePlay
    \/ Reset

StartSpec == StartInit /\ [][StartNext]_vars

\* Every length the builder takes for the path is the square root of a
\* rational square, so the model computes it exactly.
LengthsExact ==
    LET points == validPoints(trackPath.points)
    IN  \A i \in 1..Len(points) :
          LET dir1 == subVectors(points[i], prevOf(points, i))
              dir2 == subVectors(nextOf(points, i), points[i])
              avgDir == addVectors(normalize(dir1), normalize(dir2))
          IN  /\ IsSquare(lengthSq(dir1))
              /\ IsSquare(lengthSq(dir2))
              /\ IsSquare(lengthSq(avgDir))

-----------------------------------------------------------------------------
\* Properties of the playback clock (checked under Spec)
\*
\* In an action formula lastOp' names the operation of the step; isPlaying
\* and playbackSpeed are the values the operation's closure reads.

StepOf(name) == lastOp'.name = name

SpeedInRange(s) == s >= MinSpeed /\ s <= MaxSpeed

\* C1: advanceTime(delta) called while isPlaying is false changes nothing: the
\* elapsed time, isPlaying and the speed multiplier (stored and captured)
\* stay as they were, for every delta >= 0.
C1_AdvanceWhilePausedIsNoOp ==
    [][(StepOf("advanceTime") /\ ~isPlaying) => UNCHANGED clockVars]_vars

\* advanceTime(delta > 0) has been called on a paused clock that had played.
C1_Witness ==
    /\ lastOp.name = "advanceTime"
    /\ lastOp.arg > 0
    /\ ~isPlaying
    /\ ~isPlayingState
    /\ currentTimeRef > 0

\* C2: advanceTime(delta) called while isPlaying is true adds exactly
\* delta * playbackSpeed to the time getCurrentTime() returns and changes
\* neither isPlaying nor the speed multiplier.
C2_AdvanceWhilePlaying ==
    [][(StepOf("advanceTime") /\ isPlaying) =>
          /\ currentTimeRef' = currentTimeRef + lastOp'.arg * playbackSpeed
          /\ UNCHANGED <<isPlayingState, isPlaying, playbackSpeedState, playbackSpeed>>
      ]_vars

\* advanceTime(50 ms) at speed 1.5 has moved the time from 1 to 4 (75 ms).
C2_Witness ==
    /\ lastOp = Op("advanceTime", 1)
    /\ isPlaying
    /\ playbackSpeed = InitSpeed + SpeedStep
    /\ currentTimeRef = 1 + InitSpeed + SpeedStep

\* C3: reset() stores isPlaying = false and elapsed time 0, both in the ref
\* getCurrentTime() reads and in the state behind the exposed currentTime,
\* and leaves the speed multiplier alone; the render that follows exposes
\* isPlaying = false and currentTime = 0.
C3_Reset ==
    [][/\ StepOf("reset") =>
            /\ isPlayingState' = FALSE
            /\ currentTimeRef' = 0
            /\ currentTimeState' = 0
            /\ UNCHANGED <<playbackSpeedState, playbackSpeed>>
       /\ (lastOp.name = "reset" /\ StepOf("render")) =>
            /\ isPlaying' = FALSE
            /\ currentTime' = 0
            /\ currentTimeRef' = 0
      ]_vars

\* reset() has been called on a playing clock whose time had been moved by a
\* seek and by frames, and the exposed values have not been rendered yet.
C3_Witness ==
    /\ lastOp.name = "reset"
    /\ isPlaying
    /\ currentTime > 0
    /\ playbackSpeed # InitSpeed
    /\ currentTimeRef = 0

\* C4: setTime(t) sets the time getCurrentTime() returns to exactly t, playing
\* or not, and changes neither isPlaying nor the speed multiplier.
C4_SetTime ==
    [][StepOf("setTime") =>
          /\ currentTimeRef' = lastOp'.arg
          /\ UNCHANGED <<isPlayingState, isPlaying, playbackSpeedState, playbackSpeed>>
      ]_vars

\* setTime(t) has been called while playing, from a different time.
C4_Witness ==
    /\ lastOp = Op("setTime", MaxSeek)
    /\ isPlaying
    /\ isPlayingState
    /\ currentTimeRef = MaxSeek
    /\ currentTimeState = MaxSeek
    /\ currentTime = 0

ClockInv ==
    /\ currentTimeRef >= 0
    /\ currentTimeState >= 0
    /\ currentTime >= 0
    /\ playbackSpeedState > 0
    /\ playbackSpeed > 0

C7_TimeChangesOnlyInAdvanceSeekReset ==
    [][currentTimeRef' # currentTimeRef =>
          lastOp'.name \in {"advanceTime", "raceTimerFrame", "setTime", "reset"}
      ]_vars

\* The clock is playing and 150 ms of wall-clock time have passed without a frame.
C7_Witness ==
    /\ lastOp.name = "wallClock"
    /\ wallGap = MaxGap
    /\ isPlaying
    /\ isPlayingState
    /\ currentTimeRef > 0

FrameChange == currentTimeRef' - currentTimeRef

C25_TogglePlay ==
    [][/\ StepOf("togglePlay") =>
            /\ isPlayingState' = ~isPlayingState
            /\ UNCHANGED <<currentTimeRef, currentTimeState, currentTime,
                           playbackSpeedState, playbackSpeed>>
       /\ (lastOp.name = "togglePlay" /\ StepOf("togglePlay")) =>
            isPlayingState' = (lastOp.arg = 1)
       /\ (lastOp.name = "togglePlay" /\ StepOf("render")) =>
            isPlaying' = (lastOp.arg = 0)
      ]_vars

\* togglePlay() has been called twice with no render in between, on a paused
\* clock that had played at another speed: it is paused again, at the same
\* time and speed.
C25_Witness ==
    /\ lastOp = Op("togglePlay", 1)
    /\ ~isPlayingState
    /\ ~isPlaying
    /\ currentTimeRef > 0
    /\ playbackSpeedState # InitSpeed

\* C37: advanceTime, called by a consumer or by the frame of RaceTimer,
\* changes only the elapsed time getCurrentTime() reads; the state behind the
\* currentTime of the context changes only in setTime and reset, which give
\* both copies the same value; and the currentTime the context exposes
\* changes only in a render, to the value that setTime or reset stored.
C37_TwoCopiesOfTime ==
    [][/\ (StepOf("advanceTime") \/ StepOf("raceTimerFrame")) =>
            UNCHANGED <<isPlayingState, playbackSpeedState, currentTimeState,
                        isPlaying, playbackSpeed, currentTime>>
       /\ (StepOf("setTime") \/ StepOf("reset")) =>
            currentTimeState' = currentTimeRef'
       /\ currentTimeState' # currentTimeState =>
            (StepOf("setTime") \/ StepOf("reset"))
       /\ currentTime' # currentTime =>
            (StepOf("render") /\ currentTime' = currentTimeState)
      ]_vars

\* After a seek and a render, frames have advanced the time getCurrentTime()
\* reads, and the currentTime of the context still shows the seek.
C37_Witness ==
    /\ lastOp.name = "raceTimerFrame"
    /\ currentTimeRef > MaxSeek
    /\ currentTimeState = MaxSeek
    /\ currentTime = MaxSeek

\* C33: after reset() or a pause by togglePlay() has been called (the stored
\* isPlaying is false), no frame tick advances the elapsed time until the
\* next togglePlay to playing, and after reset() the time stays 0 until then
\* or until a seek, even when the tick runs before the components have
\* rendered with the new isPlaying.
C33_NoAdvanceOncePaused ==
    [][(~isPlayingState /\ StepOf("raceTimerFrame")) =>
          currentTimeRef' = currentTimeRef]_vars

-----------------------------------------------------------------------------
\* Properties of the sampling of Cars (checked under CarsSpec)
\*
\* After a step of Frame the state holds what the frame read: isPlaying is
\* the value its closure captured and currentTimeRef the time it sampled.

\* Car k was sampled by the last frame: the frame was a playing one, it ran
\* to its end, and the car has a mesh handle and at least one sample.
Sampled(k) ==
    /\ lastOp.name = "frame"
    /\ isPlaying
    /\ ~frameFault
    /\ k \in carRefs
    /\ Len(telemetry[k].times) > 0

LastIndex(k) == Len(telemetry[k].times)

\* C9: for a non-empty series and a query time t <= times[0], sampling gives
\* the car exactly the first sample's position and the visual state of the
\* first sample's throttle and brake.
C9_ClampToStart ==
    \A k \in DOMAIN telemetry :
        (Sampled(k) /\ currentTimeRef <= telemetry[k].times[1]) =>
            /\ carPos[k] = Place(telemetry[k].positions_normalized[1])
            /\ carColor[k] = colorAt(telemetry[k], 1)

\* The position half of C9, which the code does satisfy.
C9_ClampToStartPosition ==
    \A k \in DOMAIN telemetry :
        (Sampled(k) /\ currentTimeRef <= telemetry[k].times[1]) =>
            carPos[k] = Place(telemetry[k].positions_normalized[1])

\* C10: for a non-empty series and a query time t >= times[last], sampling
\* gives the car exactly the last sample's position and the visual state of
\* the last sample's throttle and brake, whatever the previous frame's time.
C10_ClampToEnd ==
    \A k \in DOMAIN telemetry :
        (Sampled(k) /\ currentTimeRef >= telemetry[k].times[LastIndex(k)]) =>
            /\ carPos[k] = Place(telemetry[k].positions_normalized[LastIndex(k)])
            /\ carColor[k] = colorAt(telemetry[k], LastIndex(k))

\* The position half of C10 for query times past the last sample, and at the
\* last sample when no earlier sample shares its timestamp.
C10_ClampToEndPosition ==
    \A k \in DOMAIN telemetry :
        (/\ Sampled(k)
         /\ currentTimeRef >= telemetry[k].times[LastIndex(k)]
         /\ findIndex(telemetry[k].times, currentTimeRef) \in {0, LastIndex(k)}) =>
            carPos[k] = Place(telemetry[k].positions_normalized[LastIndex(k)])

\* The index sample() locates for car k at the time the last frame read: the
\* smallest i with times[i] >= t (counted from 1; 0 when there is none).
IndexOf(k) == findIndex(telemetry[k].times, currentTimeRef)

\* The time the last frame read lies strictly between two samples of car k.
StrictlyBetween(k) ==
    /\ IndexOf(k) >= 2
    /\ telemetry[k].times[IndexOf(k) - 1] < currentTimeRef
    /\ currentTimeRef < telemetry[k].times[IndexOf(k)]

\* p[i-1] + f * (p[i] - p[i-1]) with f = (t - times[i-1]) / (times[i] - times[i-1])
\* for the coordinate c of car k, as an exact rational.
OnSegment(k, c) ==
    LET i  == IndexOf(k)
        t0 == telemetry[k].times[i - 1]
        t1 == telemetry[k].times[i]
        p0 == telemetry[k].positions_normalized[i - 1][c]
        p1 == telemetry[k].positions_normalized[i][c]
    IN  Rat(p0 * (t1 - t0) + (currentTimeRef - t0) * (p1 - p0), t1 - t0)

\* C11: for t strictly between times[i-1] and times[i], i the smallest index
\* with times[i] >= t, the x and z written to the car are
\* positions[i-1] + f * (positions[i] - positions[i-1]) with
\* f = (t - times[i-1]) / (times[i] - times[i-1]).
C11_Interpolation ==
    \A k \in DOMAIN telemetry :
        (Sampled(k) /\ StrictlyBetween(k)) =>
            /\ carPos[k].x = OnSegment(k, 1)
            /\ carPos[k].z = OnSegment(k, 3)

\* A third of the way from sample (3, 1) at t = 2 to sample (7, 2) at t = 5,
\* the car is at x = 13/3, z = 4/3.
C11_Witness ==
    /\ Sampled(1)
    /\ telemetry[1] = SeriesB
    /\ currentTimeRef = 3
    /\ carPos[1].x = [n |-> 13, d |-> 3]
    /\ carPos[1].z = [n |-> 4, d |-> 3]

\* The loop body of car k ran in the last frame.
RanInFrame(k) == sampleTime[k] # NotRun

\* C12: within one frame every car is sampled at the same elapsed time: the
\* time is read once before the per-car pass, every loop body of the frame
\* reads that value, and the clock still holds it when the frame has ended
\* (no advance, seek or reset has acted between two cars).
C12_OneTimePerFrame ==
    /\ \A k \in DOMAIN telemetry : RanInFrame(k) => sampleTime[k] = lastTimeRef
    /\ lastOp.name = "frame" => lastTimeRef = currentTimeRef

\* A playing frame has interpolated two cars, both at t = 3.
C12_Witness ==
    /\ Sampled(1) /\ StrictlyBetween(1)
    /\ Sampled(2) /\ StrictlyBetween(2)
    /\ sampleTime[1] = 3
    /\ sampleTime[2] = 3

\* sample(series, t) as the specification of the interpolator defines it, for a
\* non-empty series: the first sample for t <= times[0], the last sample when
\* no times[i] >= t, otherwise the position on the segment that ends at the
\* smallest i with times[i] >= t and the visual state of sample i.
SamplePos(k) ==
    LET i == IndexOf(k)
    IN  IF i = 0 THEN Place(telemetry[k].positions_normalized[LastIndex(k)])
        ELSE IF i = 1 THEN Place(telemetry[k].positions_normalized[1])
        ELSE [x |-> OnSegment(k, 1), y |-> CarY, z |-> OnSegment(k, 3)]

SampleColor(k) ==
    LET i == IndexOf(k)
    IN  colorAt(telemetry[k], IF i = 0 THEN LastIndex(k) ELSE i)

\* The last step was a frame that ran to its end, and car k has a mesh handle
\* and at least one sample.
Tracked(k) ==
    /\ lastOp.name = "frame"
    /\ ~frameFault
    /\ k \in carRefs
    /\ Len(telemetry[k].times) > 0

\* C13: after every frame, playing or paused, each tracked car's position and
\* visual state are those of sampling its series at the current elapsed time.
C13_FrameAppliesSample ==
    \A k \in DOMAIN telemetry :
        Tracked(k) => carPos[k] = SamplePos(k) /\ carColor[k] = SampleColor(k)

\* The part of C13 the code satisfies: the position, after a playing frame
\* at a time where no two samples of the car share the timestamp found.
C13_PlayingFramePosition ==
    \A k \in DOMAIN telemetry :
        (Sampled(k) /\ telemetry[k] # SeriesD) => carPos[k] = SamplePos(k)

\* The clock holds what reset() stored: paused, elapsed time 0.
AfterReset == ~isPlayingState /\ currentTimeRef = 0 /\ currentTimeState = 0

\* Every car that has a mesh handle and a sample is at the x/z of its first
\* sample, in the state a step leads to.
AtFirstSample ==
    \A k \in carRefs :
        Len(telemetry[k].times) > 0 =>
            /\ carPos'[k].x = Whole(telemetry[k].positions_normalized[1][1])
            /\ carPos'[k].z = Whole(telemetry[k].positions_normalized[1][3])

\* C14: after reset(), the next frame places every car that has a render
\* handle at the x/z of its first sample, whatever the history before it.
C14_FrameAfterReset ==
    [][(lastOp.name = "reset" /\ StepOf("frame")) => AtFirstSample]_vars

\* The part of C14 the code satisfies: the same for a frame that runs after
\* the provider has rendered the paused state.
C14_FrameAfterRenderedReset ==
    [][(AfterReset /\ ~isPlaying /\ StepOf("frame")) => AtFirstSample]_vars

\* C15: a car whose telemetry has zero samples causes no position or colour
\* update and no fault in any frame, playing or paused, and the loop body of
\* every other car that has a mesh handle still runs in that frame.
C15_EmptySeriesIsNoOp ==
    [][(StepOf("frame") /\ \E e \in carRefs : Len(telemetry[e].times) = 0) =>
          /\ ~frameFault'
          /\ \A k \in carRefs :
                IF Len(telemetry[k].times) = 0
                THEN carPos'[k] = carPos[k] /\ carColor'[k] = carColor[k]
                ELSE sampleTime'[k] = currentTimeRef'
      ]_vars

\* The part of C15 the code satisfies: a frame never changes the colour of a
\* car without samples, and a paused frame never faults.
C15_EmptySeriesKeepsColour ==
    [][StepOf("frame") =>
          /\ \A k \in carRefs :
                Len(telemetry[k].times) = 0 => carColor'[k] = carColor[k]
          /\ ~isPlaying => ~frameFault'
      ]_vars

-----------------------------------------------------------------------------
\* Properties of the geometry builder of Track (checked under TrackSpec)

Rendered == trackOutput # "unmounted"

\* The number of elements of the path that pass the validation.
ValidCount ==
    IF trackPath.given THEN Len(SelectSeq(trackPath.points, isValidPoint)) ELSE 0

\* C16: whenever fewer than 2 valid points remain after validation (no path
\* at all, an empty or single-point path, a path whose elements all fail the
\* validation), the builder returns the empty result: no center, inner or
\* outer points, and no mesh.
C16_EmptyResult ==
    (Rendered /\ ValidCount < 2) =>
        /\ centerPoints = <<>>
        /\ innerPoints = <<>>
        /\ outerPoints = <<>>
        /\ ~asphaltGeometry.built
        /\ asphaltGeometry.vertices = <<>>
        /\ trackOutput = "null"

\* A path of four elements, one valid point among three malformed ones, has
\* been rendered.
C16_Witness ==
    /\ Rendered
    /\ Len(trackPath.points) = MaxPath
    /\ ValidCount = 1
    /\ trackPath.points[1] = NaNX
    /\ trackPath.points[2] = NotArray
    /\ trackPath.points[3] = Point(Whole(100), Whole(0))
    /\ trackOutput = "null"

\* An element with three finite numbers, as C17 reads the validation.
WellFormed(point) ==
    /\ point.isArray
    /\ point.length >= 3
    /\ \A j \in 1..3 : point.c[j].type = "number" /\ IsFinite(point.c[j].v)

\* An element whose x and z are finite numbers; y is not looked at.
WellFormedXZ(point) ==
    /\ point.isArray
    /\ point.length >= 3
    /\ \A j \in {1, 3} : point.c[j].type = "number" /\ IsFinite(point.c[j].v)

\* The centerline made of the elements of s: none when there are fewer than 2.
CenterOf(s) ==
    IF Len(s) < 2 THEN <<>>
    ELSE [i \in 1..Len(s) |-> Vector3(s[i].c[1].v, Whole(0), s[i].c[3].v)]

\* C17 as claimed: every element with a non-finite or missing x, y or z is
\* skipped and contributes no centerline, inner or outer point; the others
\* are processed.
C17_MalformedSkipped ==
    (Rendered /\ trackPath.given) =>
        /\ centerPoints = CenterOf(SelectSeq(trackPath.points, WellFormed))
        /\ Len(innerPoints) = Len(centerPoints)
        /\ Len(outerPoints) = Len(centerPoints)

\* C17 as amended: an element is skipped when it is no array, has fewer than
\* 3 elements, or has an x or z that is no finite number; y is not examined
\* and is replaced by 0.  The other elements are processed in their order.
C17_MalformedXZSkipped ==
    (Rendered /\ trackPath.given) =>
        /\ centerPoints = CenterOf(SelectSeq(trackPath.points, WellFormedXZ))
        /\ Len(innerPoints) = Len(centerPoints)
        /\ Len(outerPoints) = Len(centerPoints)

\* Of four elements the two that fail on x or z are skipped, and the one
\* whose y is NaN makes a centerline point.
C17_Witness ==
    /\ Rendered
    /\ trackPath.points = <<Point(Whole(0), Whole(0)), InfinityZ, NaNY, ShortPoint>>
    /\ Len(centerPoints) = 2
    /\ centerPoints[2] = Vector3(Whole(100), Whole(0), Whole(0))
    /\ Len(innerPoints) = 2

Dot(a, b) == Plus(Plus(Times(a.x, b.x), Times(a.y, b.y)), Times(a.z, b.z))

\* The ground-plane cross product of a and b: 0 when they are parallel.
CrossXZ(a, b) == Minus(Times(a.x, b.z), Times(a.z, b.x))

\* The centerline is a straight line of at least 2 points.
StraightLine ==
    /\ Len(centerPoints) >= 2
    /\ \A j, k \in 1..Len(centerPoints) :
          CrossXZ(subVectors(centerPoints[j], centerPoints[1]),
                  subVectors(centerPoints[k], centerPoints[1])) = Whole(0)

Distinct ==
    \A j, k \in 1..Len(centerPoints) : j # k => centerPoints[j] # centerPoints[k]

\* Every point is at least 0.0001 from the one before it, the first from the last.
Separated ==
    \A i \in 1..Len(centerPoints) :
        ~LessThan(length(subVectors(centerPoints[i], prevOf(centerPoints, i))), Epsilon)

\* The boundary point b of index i lies perpendicular to the line of the
\* centerline, at the distance trackWidth / 2 from the centerline point.
Offset(b, i) ==
    LET off == subVectors(b, centerPoints[i])
    IN  /\ lengthSq(off) = Times(HalfWidth, HalfWidth)
        /\ \A j \in 1..Len(centerPoints) :
              Dot(off, subVectors(centerPoints[j], centerPoints[1])) = Whole(0)

\* C18 as claimed: for a straight-line path of N >= 2 distinct points, at
\* every index the inner and the outer point are displaced from the
\* centerline point perpendicular to the segment direction, each at distance
\* exactly width / 2.
C18_StraightLineOffsets ==
    (Rendered /\ StraightLine /\ Distinct) =>
        \A i \in 1..Len(centerPoints) :
            Offset(innerPoints[i], i) /\ Offset(outerPoints[i], i)

\* C18 as amended: the same for a straight-line path whose consecutive points,
\* the last and the first included, are at least 0.0001 apart; points closer
\* than that take the normal of the pair before them or (1, 0, 0), which need
\* not be perpendicular to the line.
C18_SeparatedStraightLineOffsets ==
    (Rendered /\ StraightLine /\ Separated) =>
        \A i \in 1..Len(centerPoints) :
            Offset(innerPoints[i], i) /\ Offset(outerPoints[i], i)

\* On the line through (0, 0), (3, 4) and (6, 8) the inner point of the
\* middle index is (3, 4) - (-4/5, 3/5) * 4 = (31/5, 8/5).
C18_Witness ==
    /\ Rendered
    /\ StraightLine
    /\ Separated
    /\ Len(centerPoints) = 3
    /\ centerPoints[2] = Vector3(Whole(3), Whole(0), Whole(4))
    /\ centerPoints[3] = Vector3(Whole(6), Whole(0), Whole(8))
    /\ innerPoints[2] = Vector3(Rat(31, 5), Whole(0), Rat(8, 5))

\* The path [[0,0,0],[1,0,0],[2,0,0]] (any y), in units of 0.01.
ExamplePath ==
    <<Point(Whole(0), Whole(0)), Point(Whole(100), Whole(0)), Point(Whole(200), Whole(0))>>

\* The points (0, 0, z), (1, 0, z), (2, 0, z)
ExampleSide(z) ==
    <<Vector3(Whole(0), Whole(0), z), Vector3(Whole(100), Whole(0), z),
      Vector3(Whole(200), Whole(0), z)>>

\* C19: for the path [[0,0,0],[1,0,0],[2,0,0]] and width w the inner points
\* are [0,0,+w/2], [1,0,+w/2], [2,0,+w/2], the outer points the same with
\* -w/2 (all inner points on one side of the centerline), and the mesh has
\* 6 vertices and 4 triangles.
C19_Example ==
    (Rendered /\ trackPath.points = ExamplePath) =>
        /\ innerPoints = ExampleSide(HalfWidth)
        /\ outerPoints = ExampleSide(Negate(HalfWidth))
        /\ Len(asphaltGeometry.vertices) = 6
        /\ Len(asphaltGeometry.indices) = 4

\* The part of C19 the code satisfies: 6 vertices, 4 triangles, and every
\* boundary point at x of its centerline point and at z = +w/2 or -w/2.
C19_ExampleCounts ==
    (Rendered /\ trackPath.points = ExamplePath) =>
        /\ Len(asphaltGeometry.vertices) = 6
        /\ Len(asphaltGeometry.indices) = 4
        /\ \A i \in 1..3 :
              /\ innerPoints[i].x = centerPoints[i].x
              /\ outerPoints[i].x = centerPoints[i].x
              /\ innerPoints[i].z \in {HalfWidth, Negate(HalfWidth)}
              /\ outerPoints[i].z = Negate(innerPoints[i].z)

\* A consecutive pair of centerline points, the last and the first included,
\* is closer than 0.0001.
HasDuplicate ==
    \E i \in 1..Len(centerPoints) :
        LessThan(length(subVectors(centerPoints[i], prevOf(centerPoints, i))), Epsilon)

\* C20: for every path of finite points that contains duplicate or
\* near-duplicate consecutive points, a duplicate at the first index and a
\* first point equal to the last included, every component of every inner,
\* outer and mesh vertex is finite.
C20_DuplicatesStayFinite ==
    (Rendered /\ HasDuplicate) =>
        /\ Len(innerPoints) = Len(centerPoints)
        /\ \A i \in 1..Len(innerPoints) : isFinitePoint(innerPoints[i])
        /\ \A i \in 1..Len(outerPoints) : isFinitePoint(outerPoints[i])
        /\ \A i \in 1..Len(asphaltGeometry.vertices) :
              isFinitePoint(asphaltGeometry.vertices[i])

\* The path (0,0), (0,0), (0.00005,0), (0,0): a duplicate at the first index,
\* a near-duplicate after it and a last point equal to the first.
C20_Witness ==
    /\ Rendered
    /\ HasDuplicate
    /\ trackPath.points = <<Point(Whole(0), Whole(0)), Point(Whole(0), Whole(0)),
                            Point(Rat(1, 200), Whole(0)), Point(Whole(0), Whole(0))>>
    /\ Len(innerPoints) = MaxPath
    /\ Len(asphaltGeometry.vertices) = 2 * MaxPath

\* The index buffer ends with the two triangles (last inner, last outer,
\* first inner) and (last outer, first outer, first inner).
HasClosing ==
    LET n == Len(asphaltGeometry.vertices) \div 2
        m == Len(asphaltGeometry.indices)
    IN  /\ m = 2 * (n - 1) + 2
        /\ asphaltGeometry.indices[m - 1] = <<2 * n - 2, 2 * n - 1, 0>>
        /\ asphaltGeometry.indices[m] = <<2 * n - 1, 1, 0>>

\* The first and the last point of the sequence s are less than 0.1 apart.
EndsClose(s) == distanceLess(s[1], s[Len(s)], CloseDist)

\* C21: the index buffer contains the two closing triangles exactly when the
\* first and the last valid centerline point are within 0.1 of each other:
\* they are present for a closed path and absent for an open one.
C21_ClosedByCenterline ==
    (Rendered /\ asphaltGeometry.built) => (HasClosing <=> EndsClose(centerPoints))

\* What the code does: the closing triangles are there exactly when the first
\* and the last inner boundary point are within 0.1 of each other.
C21_ClosedByInnerBoundary ==
    (Rendered /\ asphaltGeometry.built) => (HasClosing <=> EndsClose(innerPoints))

AllFinite(s) == \A i \in 1..Len(s) : isFinitePoint(s[i])

\* Every index of the index buffer names a vertex.
IndicesInRange ==
    \A i \in 1..Len(asphaltGeometry.indices) :
        \A j \in 1..3 :
            asphaltGeometry.indices[i][j] \in 0..(Len(asphaltGeometry.vertices) - 1)

\* C22: the builder never raises: for every input path (none, empty, with
\* non-array or short elements, non-finite values, duplicates, reversals) the
\* render completes, and it returns either the empty result or finite
\* geometry: boundaries of finite points, one inner and one outer point for
\* each centerline point, and a mesh of finite vertices.
C22_NeverRaises ==
    Rendered =>
        /\ trackOutput \in {"null", "group"}
        /\ trackOutput = "null" =>
              /\ centerPoints = <<>> /\ innerPoints = <<>> /\ outerPoints = <<>>
              /\ ~asphaltGeometry.built
        /\ trackOutput = "group" =>
              /\ Len(centerPoints) >= 2
              /\ Len(innerPoints) = Len(centerPoints)
              /\ Len(outerPoints) = Len(centerPoints)
              /\ AllFinite(centerPoints) /\ AllFinite(innerPoints) /\ AllFinite(outerPoints)
              /\ asphaltGeometry.built
              /\ Len(asphaltGeometry.vertices) = 2 * Len(centerPoints)
              /\ AllFinite(asphaltGeometry.vertices)
              /\ IndicesInRange

\* A path with an element that is no array, one with an infinite z, and a
\* reversal has been rendered to a mesh of 4 vertices.
C22_Witness ==
    /\ Rendered
    /\ trackPath.points = <<NotArray, Point(Whole(0), Whole(0)), InfinityZ,
                            Point(Whole(100), Whole(0))>>
    /\ trackOutput = "group"
    /\ Len(asphaltGeometry.vertices) = 4
    /\ AllFinite(asphaltGeometry.vertices)

\* The last step was a render of a Track that had rendered before: the same
\* mount, the same trackPath.
ReRender == StepOf("trackRender") /\ Rendered

\* C23: the builder's output is memoized on the identity of the input path:
\* a re-render of Track with the same trackPath rebuilds neither the boundary
\* sequences nor the surface mesh.
C23_Memoized ==
    [][ReRender => (~rebuilt'.boundary /\ ~rebuilt'.mesh)]_vars

\* The part of C23 the code satisfies: a re-render never rebuilds the boundary
\* sequences, the mesh it builds is equal to the one before, and the boundary
\* is built only by the first render of a mount.
C23_BoundaryMemoized ==
    [][/\ ReRender =>
            /\ ~rebuilt'.boundary
            /\ UNCHANGED <<centerPoints, innerPoints, outerPoints, asphaltGeometry>>
       /\ rebuilt'.boundary => (StepOf("trackRender") /\ ~Rendered)
      ]_vars


-----------------------------------------------------------------------------
\* Properties of the visual state and of the positions of Cars (checked
\* under CarsSpec)

\* The last frame took the interpolation branch for car k: it found a sample
\* at or after the time it read, and that sample is not the first one.
Interpolated(k) == Sampled(k) /\ IndexOf(k) >= 2

\* The throttle and the brake of sample i of car k; a value the channel does
\* not have counts as 0 and as false.
ThrottleOf(k, i) ==
    IF i <= Len(telemetry[k].throttle) THEN telemetry[k].throttle[i] ELSE 0

BrakeOf(k, i) == i <= Len(telemetry[k].brake) /\ telemetry[k].brake[i]

\* 'braking', 'accelerating', 'neutral'
VisualState(throttle, brake) ==
    IF brake THEN "#CA1551"
    ELSE IF throttle > 50 THEN "#03CEA4"
    ELSE "#FFFFFF"

\* C24: the visual state selected for a car is a total function of the
\* sampled brake and throttle: braking (#CA1551) whenever brake is truthy,
\* whatever the throttle, otherwise accelerating (#03CEA4) when throttle > 50,
\* otherwise neutral (#FFFFFF); a missing throttle or brake counts as 0 / false.
C24_VisualState ==
    \A k \in DOMAIN telemetry :
        /\ carColor[k] \in {"#CA1551", "#03CEA4", "#FFFFFF"}
        /\ Interpolated(k) =>
              carColor[k] = VisualState(ThrottleOf(k, IndexOf(k)), BrakeOf(k, IndexOf(k)))

\* A car whose sample brakes at full throttle shows the braking colour.
C24_Witness ==
    /\ Interpolated(1)
    /\ ThrottleOf(1, IndexOf(1)) = 100
    /\ BrakeOf(1, IndexOf(1))
    /\ carColor[1] = "#CA1551"

\* A car sampled where the throttle and brake channels have ended is neutral.
C24_MissingWitness ==
    /\ Interpolated(1)
    /\ IndexOf(1) > Len(telemetry[1].throttle)
    /\ IndexOf(1) > Len(telemetry[1].brake)
    /\ carColor[1] = "#FFFFFF"


\* The colour of the throttle and brake channels of car k at sample i.
ChannelColour(k, i) ==
    IF telemetry[k].brake[i] THEN Red
    ELSE IF telemetry[k].throttle[i] > ThrottleThreshold THEN Mint
    ELSE White

\* Both channels of car k have the samples i - 1 and i.
HasChannels(k, i) ==
    /\ i >= 2
    /\ i <= Len(telemetry[k].throttle)
    /\ i <= Len(telemetry[k].brake)

\* C26: during interpolation between the samples i-1 and i (i the smallest
\* index with times[i] >= t) the throttle and brake behind the car's visual
\* state are those of index i: where the two samples give different colours
\* the car shows that of i, never that of i-1 and never a third one.
C26_ChannelsAtNextIndex ==
    \A k \in DOMAIN telemetry :
        (Sampled(k) /\ StrictlyBetween(k) /\ HasChannels(k, IndexOf(k))) =>
            /\ carColor[k] = ChannelColour(k, IndexOf(k))
            /\ ChannelColour(k, IndexOf(k) - 1) # ChannelColour(k, IndexOf(k)) =>
                  carColor[k] # ChannelColour(k, IndexOf(k) - 1)

\* Half the way from a braking sample to a sample at full throttle the car
\* already shows the accelerating colour.
C26_Witness ==
    /\ Sampled(1)
    /\ StrictlyBetween(1)
    /\ telemetry[1] = SeriesA
    /\ currentTimeRef = 3
    /\ IndexOf(1) = 3
    /\ ChannelColour(1, 2) = Red
    /\ carColor[1] = Mint


\* Two samples of car k that follow each other share their timestamp.
HasDuplicateTimes(k) ==
    \E i \in 2..Len(telemetry[k].times) :
        telemetry[k].times[i] = telemetry[k].times[i - 1]

\* (t - times[i-1]) / (times[i] - times[i-1]) for the pair the last frame
\* interpolated car k on, as a pair <<numerator, denominator>>.
FractionOf(k) ==
    <<currentTimeRef - telemetry[k].times[IndexOf(k) - 1],
      telemetry[k].times[IndexOf(k)] - telemetry[k].times[IndexOf(k) - 1]>>

\* C27: sampling never divides by zero.  For every series, those with
\* duplicate timestamps included, and every query time, the pair that is
\* interpolated has times[i-1] < t <= times[i], so the denominator of the
\* fraction is positive, the fraction lies in [0, 1] and the position written
\* is a number; a pair with times[i] = times[i-1] is never the interpolated
\* one; and index 0 is never found with t > times[0] (the branch that would
\* force index 1 is never taken).
C27_NoDivisionByZero ==
    \A k \in DOMAIN telemetry :
        Sampled(k) =>
            /\ ~(IndexOf(k) = 1 /\ currentTimeRef > telemetry[k].times[1])
            /\ IndexOf(k) >= 2 =>
                  /\ FractionOf(k)[2] > 0
                  /\ FractionOf(k)[1] > 0
                  /\ FractionOf(k)[1] <= FractionOf(k)[2]
                  /\ IsFinite(carPos[k].x)
                  /\ IsFinite(carPos[k].z)

\* A car whose last two samples share the timestamp 3 has been sampled at 3:
\* the pair found is the one that ends at the first of the two, the fraction
\* is 1, and the car is at that sample.
C27_Witness ==
    /\ Sampled(1)
    /\ telemetry[1] = SeriesD
    /\ HasDuplicateTimes(1)
    /\ currentTimeRef = 3
    /\ IndexOf(1) = 2
    /\ FractionOf(1) = <<3, 3>>
    /\ carPos[1] = Place(SeriesD.positions_normalized[2])


\* The series carData with the y of every sample replaced by 0.
FlatY(carData) ==
    [carData EXCEPT !.positions_normalized =
        [i \in DOMAIN carData.positions_normalized |->
            <<carData.positions_normalized[i][1], 0,
              carData.positions_normalized[i][3]>>]]

\* The positions a frame at time t can write to a car of series carData, as
\* the reset branch and the loop body give them.
Written(carData, playing, t) ==
    {Place(initialPos(carData)),
     carUpdate(carData, Place(initialPos(carData)), White, playing, t).pos}

\* C28: every position written to a car, in the reset branch, paused at the
\* start, clamped to the first or the last sample or interpolated, has the
\* vertical coordinate 0.01, and is the position the same frame writes for
\* the series with every sample's y replaced: the x and z come from the
\* telemetry, the sample's y never reaches the car.
C28_FixedHeight ==
    [][\A k \in DOMAIN telemetry :
          carPos'[k] # carPos[k] =>
              /\ carPos'[k].y = CarY
              /\ carPos'[k] \in Written(FlatY(telemetry[k]), isPlaying,
                                        currentTimeRef')]_vars

\* A car whose first sample is (3, 5, 1) has been clamped to it: it stands
\* at x = 3, z = 1 and at the height 0.01, not 5.
C28_Witness ==
    /\ Sampled(1)
    /\ telemetry[1] = SeriesB
    /\ currentTimeRef = 2
    /\ telemetry[1].positions_normalized[1][2] = 5
    /\ carPos[1] = [x |-> Whole(3), y |-> CarY, z |-> Whole(1)]


\* The first and the last point of the centerline points are at least 0.1
\* apart.
OpenPath(points) ==
    /\ Len(points) >= 3
    /\ ~distanceLess(points[1], points[Len(points)], CloseDist)

\* The centerline with the point of index i moved to where the point of
\* index j is.
Moved(i, j) == [centerPoints EXCEPT ![i] = centerPoints[j]]

\* C29: the neighbours wrap around only when the path is effectively closed.
\* For an open path the boundary points of the first index are the same
\* wherever the last point lies, and those of the last index are the same
\* wherever the first point lies, as long as the path stays open.
C29_OpenPathNoWrap ==
    (Rendered /\ OpenPath(centerPoints)) =>
        \A j \in 2..(Len(centerPoints) - 1) :
            /\ OpenPath(Moved(Len(centerPoints), j)) =>
                  \E b \in {boundaryLoop(Moved(Len(centerPoints), j), 1, <<>>, <<>>)} :
                      /\ b.innerPoints[1] = innerPoints[1]
                      /\ b.outerPoints[1] = outerPoints[1]
            /\ OpenPath(Moved(1, j)) =>
                  \E b \in {boundaryLoop(Moved(1, j), 1, <<>>, <<>>)} :
                      /\ b.innerPoints[Len(centerPoints)] = innerPoints[Len(centerPoints)]
                      /\ b.outerPoints[Len(centerPoints)] = outerPoints[Len(centerPoints)]


\* curr - prev or next - curr is shorter than 0.0001 at index i, prev and
\* next being the neighbours the builder takes.
Degenerate(i) ==
    \/ LessThan(length(subVectors(centerPoints[i], prevOf(centerPoints, i))), Epsilon)
    \/ LessThan(length(subVectors(nextOf(centerPoints, i), centerPoints[i])), Epsilon)

\* The normal of the boundary pair of index j: (outer - inner) / trackWidth.
NormalOfPair(j) ==
    divideScalar(subVectors(outerPoints[j], innerPoints[j]), Whole(trackWidth))

\* C30: at an index where curr - prev or next - curr has near-zero length,
\* the normal is that of the boundary pair emitted before it, or (1, 0, 0)
\* at the first index, and the inner and outer points are
\* curr -/+ normal * trackWidth / 2.
C30_DegenerateDirection ==
    Rendered =>
        \A i \in 1..Len(centerPoints) :
            Degenerate(i) =>
                \E normal \in {IF i > 1 THEN NormalOfPair(i - 1) ELSE DefaultNormal} :
                    /\ innerPoints[i] =
                          addScaledVector(centerPoints[i], normal, Negate(HalfWidth))
                    /\ outerPoints[i] =
                          addScaledVector(centerPoints[i], normal, HalfWidth)

\* The path (0,0), (1,0), (1,0): the pair of the first index has the normal
\* (0, 0, -1), and the two indices of the repeated point carry it on.
C30_Witness ==
    /\ Rendered
    /\ trackPath.points = <<Point(Whole(0), Whole(0)), Point(Whole(100), Whole(0)),
                            Point(Whole(100), Whole(0))>>
    /\ ~Degenerate(1)
    /\ Degenerate(2)
    /\ Degenerate(3)
    /\ NormalOfPair(1) = Vector3(Whole(0), Whole(0), Whole(0 - 1))
    /\ innerPoints[2] = Vector3(Whole(100), Whole(0), Whole(4))
    /\ innerPoints[3] = Vector3(Whole(100), Whole(0), Whole(4))


\* v / |v|, for a v that is not short
UnitOf(v) == divideScalar(v, length(v))

\* Neither direction at index i is short, and the two unit directions sum to
\* a vector shorter than 0.0001: the path reverses at i.
Opposing(i) ==
    /\ ~Degenerate(i)
    /\ LessThan(length(addVectors(
           UnitOf(subVectors(centerPoints[i], prevOf(centerPoints, i))),
           UnitOf(subVectors(nextOf(centerPoints, i), centerPoints[i])))), Epsilon)

\* (-d1.z, 0, d1.x) of the unit d1 at index i, normalized, or (1, 0, 0) when
\* it is shorter than 0.0001.
PerpendicularOfD1(i) ==
    LET d1 == UnitOf(subVectors(centerPoints[i], prevOf(centerPoints, i)))
        p == Vector3(Negate(d1.z), Whole(0), d1.x)
    IN  IF LessThan(length(p), Epsilon) THEN DefaultNormal ELSE UnitOf(p)

\* C31: at an index where the normalized d1 and d2 sum to a near-zero vector
\* the normal is the ground-plane perpendicular of d1 alone, normalized (or
\* (1, 0, 0) when that perpendicular is near-zero), and the inner and outer
\* points are curr -/+ normal * trackWidth / 2; the averaged tangent is not
\* used.
C31_OpposingDirection ==
    Rendered =>
        \A i \in 1..Len(centerPoints) :
            Opposing(i) =>
                /\ innerPoints[i] =
                      addScaledVector(centerPoints[i], PerpendicularOfD1(i),
                                      Negate(HalfWidth))
                /\ outerPoints[i] =
                      addScaledVector(centerPoints[i], PerpendicularOfD1(i), HalfWidth)

\* The path (0,0), (1,0), (0.05,0) turns back at its second point: d1 is
\* (1, 0, 0), the normal (0, 0, 1) and the inner point (1, 0, -0.04).
C31_Witness ==
    /\ Rendered
    /\ trackPath.points = <<Point(Whole(0), Whole(0)), Point(Whole(100), Whole(0)),
                            Point(Whole(5), Whole(0))>>
    /\ Opposing(2)
    /\ PerpendicularOfD1(2) = Vector3(Whole(0), Whole(0), Whole(1))
    /\ innerPoints[2] = Vector3(Whole(100), Whole(0), Whole(0 - 4))
    /\ outerPoints[2] = Vector3(Whole(100), Whole(0), Whole(4))


\* The number of boundary pairs the mesh was built from.
Pairs == Len(innerPoints)

\* C32: for N >= 2 boundary pairs the vertices are inner0, outer0, inner1,
\* outer1, ...; the index buffer holds, for each i in 0..N-2, the triangles
\* (2i, 2i+1, 2i+2) and (2i+1, 2i+3, 2i+2), in that order, followed by nothing
\* or by exactly the two closing triangles; so it has 2(N-1) or 2(N-1)+2
\* triangles, and every index is below 2N.
C32_IndexBuffer ==
    (Rendered /\ asphaltGeometry.built) =>
        /\ Pairs >= 2
        /\ Len(asphaltGeometry.vertices) = 2 * Pairs
        /\ \A i \in 0..(Pairs - 1) :
              /\ asphaltGeometry.vertices[2 * i + 1] = innerPoints[i + 1]
              /\ asphaltGeometry.vertices[2 * i + 2] = outerPoints[i + 1]
        /\ \A i \in 0..(Pairs - 2) :
              /\ asphaltGeometry.indices[2 * i + 1] = <<2 * i, 2 * i + 1, 2 * i + 2>>
              /\ asphaltGeometry.indices[2 * i + 2] = <<2 * i + 1, 2 * i + 3, 2 * i + 2>>
        /\ \/ Len(asphaltGeometry.indices) = 2 * (Pairs - 1)
           \/ HasClosing
        /\ \A i \in 1..Len(asphaltGeometry.indices) :
              \A j \in 1..3 :
                  /\ asphaltGeometry.indices[i][j] >= 0
                  /\ asphaltGeometry.indices[i][j] < 2 * Pairs

\* The triangle (0,0), (0.07,0.24), (0.14,0) has been rendered: 3 pairs, 6
\* vertices, the 4 triangles of its 2 quads and the 2 closing triangles.
C32_Witness ==
    /\ Rendered
    /\ trackPath.points = <<Point(Whole(0), Whole(0)), Point(Whole(7), Whole(24)),
                            Point(Whole(14), Whole(0))>>
    /\ Pairs = 3
    /\ asphaltGeometry.indices =
          <<<<0, 1, 2>>, <<1, 3, 2>>, <<2, 3, 4>>, <<3, 5, 4>>,
            <<4, 5, 0>>, <<5, 1, 0>>>>


-----------------------------------------------------------------------------
\* Properties of the trigger handling of ARControls (checked under ControlsSpec)

\* The step is a frame of ARControls that invoked the action of a button.
InvokesAction == StepOf("controlsFrame") /\ lastOp'.arg # 0

\* Any two consecutive button actions are more than 300 ms apart.
Debounced ==
    (InvokesAction /\ lastActionTime # NoAction) => now - lastActionTime > DebounceGap

\* C34: the trigger handling is edge-triggered and debounced: while the
\* trigger of a controller is held continuously at most one button action
\* (togglePlay, reset, speed up, speed down) is invoked, and any two
\* consecutive invocations are more than 300 ms apart.
C34_EdgeTriggered ==
    /\ [](\A c \in Controllers : c \in held => clicks[c] <= 1)
    /\ [][Debounced]_vars

\* The part of C34 the code satisfies: consecutive invocations are more than
\* 300 ms apart, and a trigger that every frame since its first action has
\* read as down (triggerPressedRef is still set) invokes no second one.
C34_Debounced ==
    [][/\ Debounced
       /\ (InvokesAction /\ lastActionTime # NoAction) => ~triggerPressedRef]_vars


-----------------------------------------------------------------------------
\* Properties of useRaceData (checked under DataSpec)

\* Every fetch that was started has completed.
AllFetched == \A f \in RaceFiles : inFlight[f] = 0

\* C35: when the selected race file changes while the fetch of the file
\* before it is still in flight, then once every fetch has completed (none
\* has failed) the data is that of the file selected last and loading is
\* false, in whatever order the responses arrive.
C35_LastSelectionWins ==
    (raceFile # NoRace /\ AllFetched /\ ~error) =>
        /\ data = raceFile
        /\ ~loading


-----------------------------------------------------------------------------
\* Properties of the entry screen (checked under UISpec)

\* C36: the entry UI is in the presenting state (sessionActive or arStatus =
\* 'entered') only while a race is selected: a session that starts while no
\* race is selected is ended and never puts the UI in the presenting state.
C36_PresentingOnlyWithRace == isPresentingUI => raceFile # NoRace

\* The part of C36 the code satisfies: onSessionStarted never stores the
\* presenting state when no race is selected, and ends the session.
C36_CallbackChecksRace ==
    [][(StepOf("onSessionStarted") /\ selectedRaceRef = NoRace) =>
          /\ UNCHANGED <<sessionActive, arStatus>>
          /\ xrSession' = "ending"]_vars


-----------------------------------------------------------------------------
\* Properties of the start-time effect of ARScene

\* The sampled indices of a car at which it is away from its first position.
SeenMoving(car) ==
    {i \in 0..(Len(car.positions_normalized) - 1) :
        /\ i % SampleStride = 0
        /\ distSq(car.positions_normalized[i + 1], car.positions_normalized[1])
               > MoveThresholdSq}

\* The times at which the first five cars are first seen moving.
MoveTimes(cars) ==
    {cars[k].times[i + 1] :
        <<k, i>> \in {<<k, i>> \in (1..Len(cars)) \X (0..20) :
                        /\ k <= CarsChecked
                        /\ i \in SeenMoving(cars[k])
                        /\ \A j \in SeenMoving(cars[k]) : i <= j
                        /\ i + 1 <= Len(cars[k].times)}}

\* C38: the effect seeks at most once in the life of the scene; it seeks only
\* when one of the first five cars was seen moving, to max(0, firstMoveTime - 2),
\* which is >= 0; once it has, no change of the data, play/pause, reset or
\* further run of the effect makes it seek again.
C38_AlignsOnce ==
    /\ [](seeks <= 1)
    /\ [][/\ seeks' # seeks =>
                /\ StepOf("startTimeEffect")
                /\ seeks = 0
                /\ ~hasSetStartTime
                /\ data # NoRace
                /\ MoveTimes(raceJSON[data]) # {}
                /\ \E firstMoveTime \in MoveTimes(raceJSON[data]) :
                     /\ \A t \in MoveTimes(raceJSON[data]) : firstMoveTime <= t
                     /\ currentTimeRef' = Max(0, firstMoveTime - StartLead)
                /\ currentTimeRef' >= 0
                /\ currentTimeState' = currentTimeRef'
          /\ (StepOf("startTimeEffect") /\ seeks' = seeks) =>
                UNCHANGED <<currentTimeRef, currentTimeState>>
          /\ seeks >= 1 => seeks' = seeks
         ]_vars

\* The effect has sought for file A, to 20 (0.5 s); file B, whose first move
\* would give 40, was loaded later, the time was reset, and the effect ran
\* again without a seek.
C38_Witness ==
    /\ seeks = 1
    /\ hasSetStartTime
    /\ raceJSON["A"] = <<NoSamples, LateMover, Starter>>
    /\ raceJSON["B"] = <<LateMover>>
    /\ data = "B"
    /\ lastOp = Op("startTimeEffect", 0 - 1)
    /\ currentTimeRef = 0


-----------------------------------------------------------------------------
\* Properties of the three sequences of the builder

\* The centerline the builder keeps for a path: its valid points in the order
\* of the path, or none when there are fewer than two of them.
CenterlineOf(path) ==
    IF ~path.given THEN <<>>
    ELSE IF Len(validPoints(path.points)) < 2 THEN <<>>
    ELSE validPoints(path.points)

\* C39: for every path the centerline is the valid points of the path in
\* their order, the inner and outer boundaries are as long as it, the pair of
\* index i lies about the centerline point of index i (whichever branch of
\* the loop made it), and the vertex buffer holds the two points of each pair:
\* 2 vertices for each centerline point.
C39_OnePairPerPoint ==
    Rendered =>
        /\ centerPoints = CenterlineOf(trackPath)
        /\ Len(innerPoints) = Len(centerPoints)
        /\ Len(outerPoints) = Len(centerPoints)
        /\ \A i \in 1..Len(centerPoints) :
              addVectors(innerPoints[i], outerPoints[i]) =
                  addVectors(centerPoints[i], centerPoints[i])
        /\ Len(asphaltGeometry.vertices) = 2 * Len(centerPoints)
        /\ \A i \in 1..Len(centerPoints) :
              /\ asphaltGeometry.vertices[2 * i - 1] = innerPoints[i]
              /\ asphaltGeometry.vertices[2 * i] = outerPoints[i]

\* The path (0,0), (0.05,0), (1,0), (1,0): its first index reverses (the
\* path wraps around), its second takes the averaged tangent, its third and
\* fourth are degenerate; 4 pairs and 8 vertices.
C39_Witness ==
    /\ Rendered
    /\ trackPath.points = <<Point(Whole(0), Whole(0)), Point(Whole(5), Whole(0)),
                            Point(Whole(100), Whole(0)), Point(Whole(100), Whole(0))>>
    /\ Opposing(1)
    /\ ~Degenerate(2) /\ ~Opposing(2)
    /\ Degenerate(3)
    /\ Degenerate(4)
    /\ Len(centerPoints) = 4
    /\ Len(innerPoints) = 4
    /\ Len(outerPoints) = 4
    /\ Len(asphaltGeometry.vertices) = 8

====
